---- MODULE Spec2Model ----
(***************************************************************************)
(* grammy-fsm: the session synchronisation protocol of createFSM           *)
(* (plugin.ts), the session facade of createFSMContext (context module)    *)
(* and the two storage backends (MemoryStorage, RedisStorage).             *)
(*                                                                         *)
(* JavaScript objects are references.  The data mappings live in `heap`,   *)
(* and the facade, the MemoryStorage records and the values returned by    *)
(* getData hold object identities, so that sharing of one mapping between  *)
(* the facade and the in-memory backend is part of the model.              *)
(*                                                                         *)
(* Specifications:                                                         *)
(*   Spec, SpecNormal  the installed middleware, one update at a time      *)
(*   SpecConfig        createFSM called with any options                   *)
(*   SpecFailure       the Redis client may reject a command               *)
(*   SpecConcurrent    updates of two users interleaved at every await     *)
(*   SpecFilter        the state filters evaluated downstream              *)
(*   SpecRedis         the methods of a RedisStorage called directly,      *)
(*                     other clients of the server, passing time           *)
(*   SpecUpdate        updateData called by two callers at a time          *)
(*   SpecData          handlers using field names the data surface or      *)
(*                     every object answers to                             *)
(*   SpecHeld          handlers keeping the mapping getAll() returned      *)
(*   SpecAssign        handlers using ctx.state = v and ctx.data = v       *)
(*   SpecStorage       a storage object of either class, used by the       *)
(*                     middleware and called directly                      *)
(*   SpecSameKey       two updates of one user handled at a time           *)
(*   SpecTtl           the middleware on a RedisStorage with a ttl while   *)
(*                     the seconds pass                                    *)
(*   SpecMemoryUpdate  MemoryStorage.updateData called by two callers      *)
(***************************************************************************)
EXTENDS Integers, Sequences, FiniteSets, TLC

(* ---------------------------- bounds ---------------------------------- *)
MaxCallbacks == 2      \* transitions one handler run may make

Procs == {1, 2}        \* invocation slots of the middleware
UserIds == {1, 2}      \* ctx.from.id of the updates
NumHolders == Cardinality(UserIds) + 2 * Cardinality(Procs)
ObjIds == 1..(NumHolders + 1)   \* one more than can be held at a time
NoUser == 0            \* ctx.from?.id is undefined (falsy)
NoRef == 0             \* no object
Null == "null"         \* JavaScript null
States == {"a", "b"}   \* state strings handlers use
Names == {"x", "y"}    \* field names handlers use
NameOrder == <<"x", "y", "get", "toJSON", "toString">>
Values == {1, 2}       \* field values handlers use
NoExpiry == -1         \* a Redis key without expiry
KeyPrefix == "fsm:"

VARIABLES
  options,        \* the FSMOptions handed to createFSM
  constructed,    \* "no", then "ready" (middleware returned) or "error"
  storageKind,    \* the storage createFSM holds: "memory", "redis", or what
                  \* options.storage was when it is no backend
  ttl,            \* RedisStorage.ttl, 0 when not set
  onStateChange,  \* TRUE iff options.onStateChange is configured
  memStore,       \* MemoryStorage.storage : Map<number, StorageData>
  redis,          \* the Redis server's keyspace
  heap,           \* the mappings, by object identity
  pc,             \* position of each invocation of the middleware
  userId,         \* const userId of each invocation
  prior,          \* const state of each invocation (loaded state)
  sess,           \* sessionData of each invocation: [state, data]
  attached,       \* TRUE iff ctx.fsm / ctx.state / ctx.data are attached
  nextCalls,      \* number of next() calls of each invocation
  lastOp,         \* the facade operation the handler ran last
  log,            \* per invocation: backend calls and callbacks, in order
  tracking,       \* TRUE iff lastFinal is kept
  lastFinal,      \* per user: final facade of the last completed invocation
  verdict,        \* per invocation: the filter evaluated last and its outcome
  call,           \* per caller: the storage method call in progress
  written,        \* per Redis key the storage wrote: seconds since the write
  held,           \* per invocation: the mapping data.getAll() gave the handler
  attempt         \* per invocation: arguments and error of the last facade
                  \* operation (kept when tracking)

vars == <<options, constructed, storageKind, ttl, onStateChange, memStore,
          redis, heap, pc, userId, prior, sess, attached, nextCalls, lastOp,
          log, tracking, lastFinal, verdict, call, written, held, attempt>>

(* --------------------------- mappings --------------------------------- *)
EmptyMap == [n \in {} |-> 0]

Mappings == UNION {[D -> Values] : D \in SUBSET Names}

\* a merge in which the value already there wins
Merge_BaseWins(base, partial) ==
  [n \in (DOMAIN base) \cup (DOMAIN partial) |->
     IF n \in DOMAIN base THEN base[n] ELSE partial[n]]

\* { ...base, ...partial }
Merge(base, partial) ==
  [n \in (DOMAIN base) \cup (DOMAIN partial) |->
     IF n \in DOMAIN partial THEN partial[n] ELSE base[n]]

\* obj[key] = value
Put(m, key, value) ==
  [n \in (DOMAIN m) \cup {key} |-> IF n = key THEN value ELSE m[n]]

\* delete obj[key]
Remove(m, key) == [n \in (DOMAIN m) \ {key} |-> m[n]]

(* ----------------------------- heap ----------------------------------- *)
\* identity of a newly created object
NewRef(h) == CHOOSE r \in ObjIds \ DOMAIN h :
               \A q \in ObjIds \ DOMAIN h : r <= q

Alloc(h, m) == (NewRef(h) :> m) @@ h

\* references held by the backend records, the facades and the handlers
Refs(ms, ss, hd) ==
  ({ms[u].data : u \in DOMAIN ms} \cup {ss[i].data : i \in Procs}
     \cup {hd[i] : i \in Procs}) \ {NoRef}

\* unreferenced objects are collected
Collect(h, ms, ss, hd) == [r \in (DOMAIN h) \cap Refs(ms, ss, hd) |-> h[r]]

\* Object identities carry no meaning: after each step the live objects are
\* renumbered in the order in which the backend records (by user), the
\* facades and the handlers (by invocation) hold them.
Holders(ms, ss, hd) ==
  [j \in 1..NumHolders |->
     IF j \in UserIds
       THEN IF j \in DOMAIN ms THEN ms[j].data ELSE NoRef
       ELSE IF j - Cardinality(UserIds) \in Procs
         THEN ss[j - Cardinality(UserIds)].data
         ELSE hd[j - Cardinality(UserIds) - Cardinality(Procs)]]

Rank(ms, ss, hd) ==
  LET hs == Holders(ms, ss, hd)
      refs == Refs(ms, ss, hd)
      first == [q \in refs |->
                  CHOOSE j \in DOMAIN hs :
                    hs[j] = q /\ \A k \in 1..(j - 1) : hs[k] # q]
  IN  [r \in refs \cup {NoRef} |->
         IF r = NoRef THEN NoRef
         ELSE Cardinality({q \in refs : first[q] <= first[r]})]

(* ------------------------ text encoding -------------------------------- *)
\* A text is the empty text, a text that is no JSON, or the JSON text of
\* null, a number, a string, an array or an object; `members` lists the
\* members of an object, the elements of an array or the characters of a
\* string with their names ("0", "1", ... for elements and characters).
Text(kind, members) == [kind |-> kind, members |-> members]

\* JSON.stringify of a mapping: the members as a list of name/value pairs
JSONstringify(m) ==
  LET present == SelectSeq(NameOrder, LAMBDA n : n \in DOMAIN m)
  IN  Text("object", [j \in 1..Len(present) |-> <<present[j], m[present[j]]>>])

\* a JavaScript value by its kind and its own enumerable properties
JsValue(kind, props) == [kind |-> kind, value |-> props]

JsNull == JsValue("null", EmptyMap)

\* JSON.parse: the value a text denotes, a later member overriding an
\* earlier one; a text that is no JSON raises a SyntaxError
JSONparse(t) ==
  LET ms == t.members
      last(n) == CHOOSE j \in 1..Len(ms) :
                   /\ ms[j][1] = n
                   /\ \A q \in 1..Len(ms) : ms[q][1] = n => q <= j
  IN  IF t.kind \in {"empty", "invalid"}
        THEN JsValue("SyntaxError", EmptyMap)
        ELSE JsValue(t.kind,
                     [n \in {ms[j][1] : j \in 1..Len(ms)} |-> ms[last(n)][2]])

\* a value handlers pass or read, by its typeof (null apart), with the
\* number or the string it is
Primitive(kind, number, string) ==
  [kind |-> kind, number |-> number, string |-> string]

JsUndefined == Primitive("undefined", 0, "")

JsNullLiteral == Primitive("null", 0, "")

JsNumber(n) == Primitive("number", n, "")

JsString(t) == Primitive("string", 0, t)

JsFunction == Primitive("function", 0, "")

JsObject == Primitive("object", 0, "")

\* Object.keys(v): raises a TypeError for null
ObjectKeys(v) ==
  [error |-> v.kind = "null", keys |-> DOMAIN v.value]

(* ------------------------ MemoryStorage -------------------------------- *)
\* A world w is the backend side of the program: [mem, redis, heap].

\* this.storage.get(userId) ?? { state: null, data: {} }
MemoryCurrent(w, u) ==
  IF u \in DOMAIN w.mem
    THEN [rec |-> w.mem[u], heap |-> w.heap]
    ELSE [rec |-> [state |-> Null, data |-> NewRef(w.heap)],
          heap |-> Alloc(w.heap, EmptyMap)]

Memory_setState(w, u, s) ==
  LET cur == MemoryCurrent(w, u)
  IN  [w EXCEPT !.mem = (u :> [cur.rec EXCEPT !.state = s]) @@ w.mem,
                !.heap = cur.heap]

Memory_getState(w, u) ==
  IF u \in DOMAIN w.mem THEN w.mem[u].state ELSE Null

Memory_setData(w, u, ref) ==
  LET cur == MemoryCurrent(w, u)
  IN  [w EXCEPT !.mem = (u :> [cur.rec EXCEPT !.data = ref]) @@ w.mem,
                !.heap = cur.heap]

\* returns the stored object itself, or null when it has no keys
Memory_getData(w, u) ==
  [w |-> w,
   ref |-> IF u \in DOMAIN w.mem /\ DOMAIN w.heap[w.mem[u].data] # {}
             THEN w.mem[u].data ELSE NoRef]

Memory_updateData(w, u, partial) ==
  LET cur == MemoryCurrent(w, u)
      merged == Merge(cur.heap[cur.rec.data], partial)
  IN  [w EXCEPT !.mem = (u :> [cur.rec EXCEPT !.data = NewRef(cur.heap)])
                          @@ w.mem,
                !.heap = Alloc(cur.heap, merged)]

\* clear resetting the state of the record and keeping its data
Memory_clear_StateOnly(w, u) ==
  IF u \in DOMAIN w.mem
    THEN [w EXCEPT !.mem = [w.mem EXCEPT ![u].state = Null]]
    ELSE w

Memory_clear(w, u) ==
  [w EXCEPT !.mem = [k \in (DOMAIN w.mem) \ {u} |-> w.mem[k]]]

(* ------------------------- Redis client -------------------------------- *)
RedisGet(r, key) == IF key \in DOMAIN r THEN r[key].val ELSE Null

RedisSet(r, key, val) == (key :> [val |-> val, exp |-> NoExpiry]) @@ r

RedisSetex(r, key, seconds, val) ==
  (key :> [val |-> val, exp |-> seconds]) @@ r

RedisDel(r, keys) == [k \in (DOMAIN r) \ keys |-> r[k]]

\* a command sent to the client: its name, its keys and its seconds
Cmd(name, keys, seconds) == [cmd |-> name, keys |-> keys, seconds |-> seconds]

(* ------------------------- RedisStorage -------------------------------- *)
\* A world also lists, in w.cmds, the commands sent to the client.

\* getStateKey leaving the user out of the key
getStateKey_Shared(u) == <<KeyPrefix, 0, "state">>

getStateKey(u) == <<KeyPrefix, u, "state">>

getDataKey(u) == <<KeyPrefix, u, "data">>

Redis_setState(w, u, s) ==
  LET key == getStateKey(u)
  IN  IF ttl # 0
        THEN [w EXCEPT !.redis = RedisSetex(w.redis, key, ttl, s),
                       !.cmds = Append(@, Cmd("setex", {key}, ttl))]
        ELSE [w EXCEPT !.redis = RedisSet(w.redis, key, s),
                       !.cmds = Append(@, Cmd("set", {key}, NoExpiry))]

Redis_getState(w, u) == RedisGet(w.redis, getStateKey(u))

\* setData that never passes the expiry
Redis_setData_PlainSet(w, u, ref) ==
  LET key == getDataKey(u)
      serialized == JSONstringify(w.heap[ref])
  IN  [w EXCEPT !.redis = RedisSet(w.redis, key, serialized),
                !.cmds = Append(@, Cmd("set", {key}, NoExpiry))]

Redis_setData(w, u, ref) ==
  LET key == getDataKey(u)
      serialized == JSONstringify(w.heap[ref])
  IN  IF ttl # 0
        THEN [w EXCEPT !.redis = RedisSetex(w.redis, key, ttl, serialized),
                       !.cmds = Append(@, Cmd("setex", {key}, ttl))]
        ELSE [w EXCEPT !.redis = RedisSet(w.redis, key, serialized),
                       !.cmds = Append(@, Cmd("set", {key}, NoExpiry))]

\* getData once the client returned `data` (absent: null): null for no
\* text, for a text JSON.parse or Object.keys raises on and for a value
\* without keys; otherwise the parsed value
parseData(present, data) ==
  IF ~present \/ data.kind = "empty"
    THEN JsNull
    ELSE LET parsed == JSONparse(data)
         IN  IF parsed.kind = "SyntaxError" \/ ObjectKeys(parsed).error
               THEN JsNull
               ELSE IF ObjectKeys(parsed).keys # {} THEN parsed ELSE JsNull

\* returns a newly parsed value, or null
Redis_getData(w, u) ==
  LET key == getDataKey(u)
      got == [w EXCEPT !.cmds = Append(@, Cmd("get", {key}, NoExpiry))]
      v == IF key \in DOMAIN w.redis
             THEN parseData(TRUE, w.redis[key].val)
             ELSE parseData(FALSE, Text("empty", <<>>))
  IN  IF v = JsNull
        THEN [w |-> got, ref |-> NoRef, value |-> v]
        ELSE [w |-> [got EXCEPT !.heap = Alloc(w.heap, v.value)],
              ref |-> NewRef(w.heap), value |-> v]

\* clear deleting the state key only
Redis_clear_StateOnly(w, u) ==
  LET keys == {getStateKey(u)}
  IN  [w EXCEPT !.redis = RedisDel(w.redis, keys),
                !.cmds = Append(@, Cmd("del", keys, NoExpiry))]

Redis_clear(w, u) ==
  LET keys == {getStateKey(u), getDataKey(u)}
  IN  [w EXCEPT !.redis = RedisDel(w.redis, keys),
                !.cmds = Append(@, Cmd("del", keys, NoExpiry))]

(* --------------------- the configured storage -------------------------- *)
Storage_getState(w, u) ==
  IF storageKind = "memory" THEN Memory_getState(w, u)
                            ELSE Redis_getState(w, u)

Storage_getData(w, u) ==
  IF storageKind = "memory" THEN Memory_getData(w, u)
                            ELSE Redis_getData(w, u)

Storage_setState(w, u, s) ==
  IF storageKind = "memory" THEN Memory_setState(w, u, s)
                            ELSE Redis_setState(w, u, s)

Storage_setData(w, u, ref) ==
  IF storageKind = "memory" THEN Memory_setData(w, u, ref)
                            ELSE Redis_setData(w, u, ref)

Storage_clear(w, u) ==
  IF storageKind = "memory" THEN Memory_clear(w, u)
                            ELSE Redis_clear(w, u)

World == [mem |-> memStore, redis |-> redis, heap |-> heap, cmds |-> <<>>]

\* what a load of user u would see now: getState and (getData || {})
StoredState(u) == Storage_getState(World, u)

StoredFields(u) ==
  LET g == Storage_getData(World, u)
  IN  IF g.ref = NoRef THEN EmptyMap ELSE g.w.heap[g.ref]

(* ------------------------------ log ------------------------------------ *)
\* One entry per backend call and per onStateChange call of an invocation.
CallEv(op, u, st, m) ==
  [op |-> op, user |-> u, old |-> Null, new |-> st, data |-> m]

CbEv(u, old, new) ==
  [op |-> "onStateChange", user |-> u, old |-> old, new |-> new,
   data |-> EmptyMap]

WriteOps == {"setState", "setData", "updateData", "clear"}

Calls(l) == SelectSeq(l, LAMBDA e : e.op # "onStateChange")

Writes(l) == SelectSeq(l, LAMBDA e : e.op \in WriteOps)

Callbacks(l) == SelectSeq(l, LAMBDA e : e.op = "onStateChange")

NoSession == [state |-> Null, data |-> NoRef]

\* the keys the storage wrote, after the commands cs: a set or setex makes
\* the key new, a del forgets it
RECURSIVE Age(_, _)
Age(wr, cs) ==
  IF cs = <<>> THEN wr
  ELSE LET c == Head(cs)
           rest == [k \in (DOMAIN wr) \ c.keys |-> wr[k]]
       IN  Age(IF c.cmd \in {"set", "setex"}
                 THEN [k \in c.keys |-> 0] @@ rest
                 ELSE IF c.cmd = "del" THEN rest ELSE wr,
               Tail(cs))

\* the new backend side w, the new facades ss and the mappings hd the
\* handlers hold become the next state
CommitHeld(w, ss, hd) ==
  \E id \in {Rank(w.mem, ss, hd)}, live \in {Collect(w.heap, w.mem, ss, hd)} :
    /\ sess' = [i \in Procs |-> [ss[i] EXCEPT !.data = id[@]]]
    /\ held' = [i \in Procs |-> id[hd[i]]]
    /\ memStore' = [u \in DOMAIN w.mem |-> [w.mem[u] EXCEPT !.data = id[@]]]
    /\ redis' = w.redis
    /\ written' = Age(written, w.cmds)
    /\ heap' = [n \in {id[r] : r \in DOMAIN live} |->
                  live[CHOOSE r \in DOMAIN live : id[r] = n]]

Commit(w, ss) == CommitHeld(w, ss, held)

Config == <<options, constructed, storageKind, ttl, onStateChange, tracking>>

(* ----------------------- createFSM: options ---------------------------- *)
Backends == {"memory", "redis"}

TtlOptions == {0, 2}   \* options.ttl in seconds; 0 when it is not given

\* a value of options.storage: a string, undefined, null, or an object of
\* class `value` (a RedisStorage was constructed with the ttl option t)
StorageValue(kind, value, t) == [kind |-> kind, value |-> value, ttl |-> t]

StorageValues ==
  {StorageValue("string", v, 0) : v \in Backends \cup {"sqlite"}}
    \cup {StorageValue("object", "RedisStorage", t) : t \in TtlOptions}
    \cup {StorageValue("object", "MemoryStorage", 0),
          StorageValue("object", "Object", 0),
          StorageValue("null", "null", 0),
          StorageValue("undefined", "undefined", 0)}

Options == [storage : StorageValues, client : BOOLEAN, ttl : TtlOptions]

\* typeof v
typeof(v) == IF v.kind \in {"object", "null"} THEN "object" ELSE v.kind

\* what the `storage` of createFSM is when options.storage is returned as is
StorageClass(v) ==
  CASE v.value = "RedisStorage" -> "redis"
    [] v.value = "MemoryStorage" -> "memory"
    [] OTHER -> v.value

ConfigError == [error |-> TRUE, kind |-> "none", ttl |-> 0]

initializeStorage(o) ==
  IF typeof(o.storage) = "object"
    THEN [error |-> FALSE, kind |-> StorageClass(o.storage),
          ttl |-> o.storage.ttl]
  ELSE IF o.storage = StorageValue("string", "memory", 0)
    THEN [error |-> FALSE, kind |-> "memory", ttl |-> 0]
  ELSE IF o.storage = StorageValue("string", "redis", 0)
    THEN IF ~o.client
           THEN ConfigError
           ELSE [error |-> FALSE, kind |-> "redis", ttl |-> o.ttl]
  ELSE ConfigError

(* ------------------------------ Init ----------------------------------- *)
\* a filter returned the boolean b
Returns(b) == [raised |-> FALSE, value |-> b]

\* throw new Error("FSM plugin not initialized. ...")
UsageError == [raised |-> TRUE, value |-> FALSE]

\* a filter, the state names it was made with and what evaluating it gave
Verdict(filter, stateNames, outcome) ==
  [filter |-> filter, stateNames |-> stateNames, outcome |-> outcome]

NoVerdict == Verdict("none", <<>>, Returns(FALSE))

Callers == {1, 2}      \* callers of the RedisStorage methods

\* a JavaScript number: n, or n + 0.5 when `half`
Num(n, half) == [whole |-> n, half |-> half]

\* Number.isInteger(x)
NumberIsInteger(x) == ~x.half

\* x <= 0
NotPositive(x) == x.whole < 0 \/ (x.whole = 0 /\ ~x.half)

\* the userId arguments of direct calls: 1, 0, -1 and 1.5
KeyArgs == {Num(1, FALSE), Num(0, FALSE), Num(-1, FALSE), Num(1, TRUE)}

\* what a method call resolved to: nothing, a state or null, a value
Result(kind, st, v) == [kind |-> kind, state |-> st, value |-> v]

NoResult == Result("none", Null, JsNull)

NoCall ==
  [pc |-> "idle", op |-> "none", key |-> Num(0, FALSE), cmds |-> <<>>,
   result |-> NoResult, current |-> EmptyMap, partial |-> EmptyMap]

\* the arguments of a facade operation (a name, a JavaScript value, whether
\* the calling code is strict-mode code), the error it raised and the
\* mapping passed to data.update
Attempt(name, value, strict, error) ==
  [name |-> name, value |-> value, strict |-> strict, error |-> error,
   partial |-> EmptyMap]

NoError == "none"

NoAttempt == Attempt("", JsUndefined, TRUE, NoError)

\* everything but the configuration, before the first update arrives
Fresh(track, callback) ==
  /\ tracking = track
  /\ onStateChange \in callback
  /\ memStore = [u \in {} |-> NoSession]
  /\ redis = [k \in {} |-> 0]
  /\ heap = [r \in {} |-> EmptyMap]
  /\ pc = [i \in Procs |-> "idle"]
  /\ userId = [i \in Procs |-> NoUser]
  /\ prior = [i \in Procs |-> Null]
  /\ sess = [i \in Procs |-> NoSession]
  /\ attached = [i \in Procs |-> FALSE]
  /\ nextCalls = [i \in Procs |-> 0]
  /\ lastOp = [i \in Procs |-> "none"]
  /\ log = [i \in Procs |-> <<>>]
  /\ lastFinal = [u \in UserIds |-> [state |-> Null, data |-> EmptyMap]]
  /\ verdict = [i \in Procs |-> NoVerdict]
  /\ call = [c \in Callers |-> NoCall]
  /\ written = [k \in {} |-> 0]
  /\ held = [i \in Procs |-> NoRef]
  /\ attempt = [i \in Procs |-> NoAttempt]

\* the state once createFSM(opts) has returned the middleware; nothing
\* else has happened
Installed(opts, track, callback) ==
  /\ options = opts
  /\ ~initializeStorage(opts).error
  /\ constructed = "ready"
  /\ storageKind = initializeStorage(opts).kind
  /\ ttl = initializeStorage(opts).ttl
  /\ Fresh(track, callback)

\* createFSM({ storage: "memory" | "redis", redis: { client } })
InitWith(track, callback) ==
  \E id \in Backends :
    Installed([storage |-> StorageValue("string", id, 0), client |-> TRUE,
               ttl |-> 0], track, callback)

Init == InitWith(FALSE, BOOLEAN)

(* ------------------- createFSM: construction --------------------------- *)
\* const storage = initializeStorage(options); return async (ctx, next) => ...
\* An error of initializeStorage leaves createFSM without a middleware.
CreateFSM ==
  /\ constructed = "no"
  /\ LET s == initializeStorage(options)
     IN  IF s.error
           THEN /\ constructed' = "error"
                /\ UNCHANGED <<storageKind, ttl>>
           ELSE /\ constructed' = "ready"
                /\ storageKind' = s.kind
                /\ ttl' = s.ttl
  /\ UNCHANGED <<options, attempt, onStateChange, tracking, call, verdict, written,
                 memStore, redis, heap, pc, userId, prior, sess, held, attached, nextCalls,
                 lastOp, log, lastFinal>>

(* ------------------- createFSM: the middleware ------------------------- *)
\* Start without the `if (!userId)` early return
Start_NoUserCheck(i, u) ==
  /\ constructed = "ready"
  /\ pc[i] = "idle"
  /\ userId' = [userId EXCEPT ![i] = u]
  /\ pc' = [pc EXCEPT ![i] = "awaitGetState"]
  /\ prior' = [prior EXCEPT ![i] = Storage_getState(World, u)]
  /\ log' = [log EXCEPT ![i] =
               Append(@, CallEv("getState", u, Null, EmptyMap))]
  /\ UNCHANGED <<Config, attempt, call, verdict, written, memStore, redis, heap, sess, held,
                 attached, lastOp, lastFinal, nextCalls>>

\* The middleware createFSM returned is called with an update.
\* const userId = ctx.from?.id; without one: await next(); return.
\* Otherwise the first backend call, storage.getState(userId), is made; it
\* raises a TypeError when `storage` is no backend (null, a plain object).
Start(i, u) ==
  /\ constructed = "ready"
  /\ pc[i] = "idle"
  /\ userId' = [userId EXCEPT ![i] = u]
  /\ IF u = NoUser
       THEN /\ pc' = [pc EXCEPT ![i] = "passthrough"]
            /\ nextCalls' = [nextCalls EXCEPT ![i] = @ + 1]
            /\ UNCHANGED <<prior, log>>
       ELSE IF storageKind \notin Backends
       THEN /\ pc' = [pc EXCEPT ![i] = "threw"]
            /\ UNCHANGED <<prior, log, nextCalls>>
       ELSE /\ pc' = [pc EXCEPT ![i] = "awaitGetState"]
            /\ prior' = [prior EXCEPT ![i] = Storage_getState(World, u)]
            /\ log' = [log EXCEPT ![i] =
                         Append(@, CallEv("getState", u, Null, EmptyMap))]
            /\ UNCHANGED nextCalls
  /\ UNCHANGED <<Config, attempt, call, verdict, written, memStore, redis, heap, sess, held,
                 attached, lastOp, lastFinal>>

\* a load that takes the state from the end of the last invocation
Load_CachedState(i) ==
  /\ pc[i] = "awaitGetState"
  /\ LET g == Storage_getData(World, userId[i])
         w == IF g.ref = NoRef
                THEN [g.w EXCEPT !.heap = Alloc(g.w.heap, EmptyMap)]
                ELSE g.w
         ref == IF g.ref = NoRef THEN NewRef(g.w.heap) ELSE g.ref
     IN  Commit(w, [sess EXCEPT ![i] = [state |-> lastFinal[userId[i]].state,
                                        data |-> ref]])
  /\ log' = [log EXCEPT ![i] =
               Append(@, CallEv("getData", userId[i], Null, EmptyMap))]
  /\ attached' = [attached EXCEPT ![i] = TRUE]
  /\ nextCalls' = [nextCalls EXCEPT ![i] = @ + 1]
  /\ pc' = [pc EXCEPT ![i] = "handler"]
  /\ UNCHANGED <<Config, attempt, call, verdict, userId, prior, lastOp,
                 lastFinal>>

\* const data = await storage.getData(userId);
\* sessionData = { state, data: data || {} }; addFSMToContext; next()
Load(i) ==
  /\ pc[i] = "awaitGetState"
  /\ LET g == Storage_getData(World, userId[i])
         w == IF g.ref = NoRef
                THEN [g.w EXCEPT !.heap = Alloc(g.w.heap, EmptyMap)]
                ELSE g.w
         ref == IF g.ref = NoRef THEN NewRef(g.w.heap) ELSE g.ref
     IN  Commit(w, [sess EXCEPT ![i] = [state |-> prior[i], data |-> ref]])
  /\ log' = [log EXCEPT ![i] =
               Append(@, CallEv("getData", userId[i], Null, EmptyMap))]
  /\ attached' = [attached EXCEPT ![i] = TRUE]
  /\ nextCalls' = [nextCalls EXCEPT ![i] = @ + 1]
  /\ pc' = [pc EXCEPT ![i] = "handler"]
  /\ UNCHANGED <<Config, attempt, call, verdict, userId, prior, lastOp,
                 lastFinal>>

(* ---------------------- the session facade ----------------------------- *)
\* the per-user callback createFSM builds around options.onStateChange
UserCallback(i, l, old, new) == Append(l, CbEv(userId[i], old, new))

\* if (onStateChange && <changed>) onStateChange(oldState, newState)
Notify(i, changed, old, new) ==
  IF onStateChange /\ changed THEN UserCallback(i, log[i], old, new)
                              ELSE log[i]

\* a handler may make another transition
MayTransit(i) == Len(Callbacks(log[i])) < MaxCallbacks

\* one synchronous facade operation of the handler of invocation i, which
\* leaves the handler holding hd
FacadeStepWith(i, op, st, h, ref, l, hd, at) ==
  /\ pc[i] = "handler"
  /\ CommitHeld([World EXCEPT !.heap = h],
                [sess EXCEPT ![i] = [state |-> st, data |-> ref]],
                [held EXCEPT ![i] = hd])
  /\ log' = [log EXCEPT ![i] = l]
  /\ lastOp' = [lastOp EXCEPT ![i] = op]
  /\ attempt' = [attempt EXCEPT ![i] = IF tracking THEN at ELSE NoAttempt]
  /\ UNCHANGED <<Config, call, verdict, pc, userId, prior, attached,
                 nextCalls, lastFinal>>

FacadeStep(i, op, st, h, ref, l) ==
  FacadeStepWith(i, op, st, h, ref, l, held[i], NoAttempt)

\* state.set without the `oldState !== state` test
StateSet_AlwaysNotify(i, s) ==
  /\ attached[i]
  /\ MayTransit(i)
  /\ FacadeStep(i, "state.set", s, heap, sess[i].data,
                Notify(i, TRUE, sess[i].state, s))

\* ctx.state.set(state)
StateSet(i, s) ==
  /\ attached[i]
  /\ MayTransit(i)
  /\ FacadeStep(i, "state.set", s, heap, sess[i].data,
                Notify(i, sess[i].state # s, sess[i].state, s))

\* state.clear reporting the state loaded on entry as the old state
StateClear_ReportsPrior(i) ==
  /\ attached[i]
  /\ MayTransit(i)
  /\ FacadeStep(i, "state.clear", Null, heap, sess[i].data,
                Notify(i, sess[i].state # Null, prior[i], Null))

\* ctx.state.clear()
StateClear(i) ==
  /\ attached[i]
  /\ MayTransit(i)
  /\ FacadeStep(i, "state.clear", Null, heap, sess[i].data,
                Notify(i, sess[i].state # Null, sess[i].state, Null))

\* ctx.data.set(key, value): writes into the object the facade holds
DataSet(i, key, value) ==
  /\ attached[i]
  /\ FacadeStepWith(i, "data.set", sess[i].state,
                    [heap EXCEPT ![sess[i].data] = Put(@, key, value)],
                    sess[i].data, log[i], held[i],
                    Attempt(key, JsNumber(value), TRUE, NoError))

\* ctx.data.delete(key)
DataDelete(i, key) ==
  /\ attached[i]
  /\ FacadeStep(i, "data.delete", sess[i].state,
                [heap EXCEPT ![sess[i].data] = Remove(@, key)],
                sess[i].data, log[i])

\* ctx.data.setAll(data): the facade now holds the caller's object
DataSetAll(i, m) ==
  /\ attached[i]
  /\ FacadeStep(i, "data.setAll", sess[i].state, Alloc(heap, m), NewRef(heap),
                log[i])

\* ctx.data.update(data): a new object { ...old, ...data }
DataUpdate(i, partial) ==
  /\ attached[i]
  /\ FacadeStepWith(i, "data.update", sess[i].state,
                    Alloc(heap, Merge(heap[sess[i].data], partial)),
                    NewRef(heap), log[i], held[i],
                    [Attempt("", JsObject, TRUE, NoError)
                       EXCEPT !.partial = partial])

\* data.clear that clears the state as well
DataClear_AlsoState(i) ==
  /\ attached[i]
  /\ FacadeStep(i, "data.clear", Null, Alloc(heap, EmptyMap), NewRef(heap),
                Notify(i, sess[i].state # Null, sess[i].state, Null))

\* ctx.data.clear(): a new empty object
DataClear(i) ==
  /\ attached[i]
  /\ FacadeStep(i, "data.clear", sess[i].state, Alloc(heap, EmptyMap),
                NewRef(heap), log[i])

\* getAll returning a defensive copy
DataGetAll_Copy(i) ==
  /\ attached[i]
  /\ FacadeStepWith(i, "data.getAll", sess[i].state,
                    Alloc(heap, heap[sess[i].data]), sess[i].data, log[i],
                    NewRef(heap), NoAttempt)

\* ctx.data.getAll(): the handler holds the object the facade holds
DataGetAll(i) ==
  /\ attached[i]
  /\ FacadeStepWith(i, "data.getAll", sess[i].state, heap, sess[i].data,
                    log[i], sess[i].data, NoAttempt)

\* the methods of the data namespace object
Methods ==
  {"set", "get", "setAll", "getAll", "update", "delete", "clear", "toJSON"}

\* names every object inherits from Object.prototype
ObjectPrototype == {"constructor", "toString", "valueOf", "hasOwnProperty"}

\* names the data namespace object answers to (`prop in target`): its
\* methods and what it inherits from Object.prototype
NamespaceProps == Methods \cup ObjectPrototype

\* prop in sessionData.data
InData(m, prop) == prop \in DOMAIN m \/ prop \in ObjectPrototype

\* sessionData.data[key]: the field, else what the mapping inherits
Lookup(m, key) ==
  IF key \in DOMAIN m THEN JsNumber(m[key])
  ELSE IF key \in ObjectPrototype THEN JsFunction
  ELSE JsUndefined

\* ctx.data.get(key)
DataGet(i, key) == Lookup(heap[sess[i].data], key)

\* ctx.data[prop]: the Proxy's get trap
ProxyGet(i, prop) ==
  IF prop \in NamespaceProps THEN JsFunction
                             ELSE Lookup(heap[sess[i].data], prop)

\* prop in ctx.data: the Proxy's has trap
ProxyHas(i, prop) ==
  prop \in NamespaceProps \/ InData(heap[sess[i].data], prop)

\* the Proxy's ownKeys trap: Object.keys(sessionData.data)
ProxyOwnKeys(i) == DOMAIN heap[sess[i].data]

\* a property descriptor, or undefined
Descriptor(defined, enumerable, value) ==
  [defined |-> defined, enumerable |-> enumerable, value |-> value]

\* Object.getOwnPropertyDescriptor(target, prop): the methods are own,
\* enumerable properties of the namespace object; inherited names are not
\* own properties
TargetOwnPropertyDescriptor(prop) ==
  IF prop \in Methods THEN Descriptor(TRUE, TRUE, JsFunction)
                      ELSE Descriptor(FALSE, FALSE, JsUndefined)

\* the Proxy's getOwnPropertyDescriptor trap
ProxyGetOwnPropertyDescriptor(i, prop) ==
  IF prop \in NamespaceProps
    THEN TargetOwnPropertyDescriptor(prop)
    ELSE IF InData(heap[sess[i].data], prop)
      THEN Descriptor(TRUE, TRUE, Lookup(heap[sess[i].data], prop))
      ELSE Descriptor(FALSE, FALSE, JsUndefined)

\* Object.keys(ctx.data), for (name in ctx.data): the own keys whose
\* descriptor is defined and enumerable
DataKeys(i) ==
  {k \in ProxyOwnKeys(i) :
     /\ ProxyGetOwnPropertyDescriptor(i, k).defined
     /\ ProxyGetOwnPropertyDescriptor(i, k).enumerable}

\* ctx.data[name] = value: the Proxy's set trap.  For a name the namespace
\* object answers to, the trap returns false: the assignment is dropped in
\* sloppy-mode code and raises a TypeError in strict-mode code.
FieldAssign(i, name, value, strict) ==
  /\ attached[i]
  /\ FacadeStepWith(i, "data[]=", sess[i].state,
                    IF name \in NamespaceProps
                      THEN heap
                      ELSE [heap EXCEPT ![sess[i].data] = Put(@, name, value)],
                    sess[i].data, log[i], held[i],
                    Attempt(name, JsNumber(value), strict,
                            IF name \in NamespaceProps /\ strict
                              THEN "TypeError" ELSE NoError))

\* ctx.state = value: the setter addFSMToContext defines
StateAssign(i, value) ==
  /\ attached[i]
  /\ MayTransit(i)
  /\ LET new == IF value.kind \in {"undefined", "null"} THEN Null
                ELSE IF value.kind = "string" THEN value.string
                ELSE sess[i].state
     IN  FacadeStepWith(i, "ctx.state=", new, heap, sess[i].data,
                        Notify(i, sess[i].state # new, sess[i].state, new),
                        held[i], Attempt("state", value, TRUE, NoError))

\* ctx.data = value: the setter addFSMToContext defines
DataAssign(i, value) ==
  /\ attached[i]
  /\ IF value.kind \in {"undefined", "null"}
       THEN FacadeStepWith(i, "ctx.data=", sess[i].state,
                           Alloc(heap, EmptyMap), NewRef(heap), log[i],
                           held[i], Attempt("data", value, TRUE, NoError))
       ELSE FacadeStepWith(i, "ctx.data=", sess[i].state, heap, sess[i].data,
                           log[i], held[i],
                           Attempt("data", value, TRUE, NoError))

\* fsm.clear reporting a transition whenever anything was cleared
FsmClear_NotifyAnyChange(i) ==
  /\ attached[i]
  /\ MayTransit(i)
  /\ FacadeStep(i, "fsm.clear", Null, Alloc(heap, EmptyMap), NewRef(heap),
                Notify(i, sess[i].state # Null \/ heap[sess[i].data] # EmptyMap,
                       sess[i].state, Null))

\* ctx.fsm.clear()
FsmClear(i) ==
  /\ attached[i]
  /\ MayTransit(i)
  /\ FacadeStep(i, "fsm.clear", Null, Alloc(heap, EmptyMap), NewRef(heap),
                Notify(i, sess[i].state # Null, sess[i].state, Null))

(* ----------------------------- filters ------------------------------- *)
\* ctx.state.get()
StateGet(i) == sess[i].state

\* ctx.state.has()
StateHas(i) == sess[i].state # Null

\* state(stateName)(ctx) without the `!ctx.state` test, reading ctx.state?.get()
Filter_state_Optional(i, stateName) ==
  IF ~attached[i] THEN Returns(FALSE) ELSE Returns(StateGet(i) = stateName)

\* state(stateName)(ctx)
Filter_state(i, stateName) ==
  IF ~attached[i] THEN UsageError ELSE Returns(StateGet(i) = stateName)

\* states(...stateNames)(ctx)
Filter_states(i, stateNames) ==
  IF ~attached[i]
    THEN UsageError
    ELSE LET currentState == StateGet(i)
         IN  Returns(currentState # Null
                       /\ \E j \in 1..Len(stateNames) :
                            stateNames[j] = currentState)

\* inAnyState()(ctx)
Filter_inAnyState(i) ==
  IF ~attached[i] THEN UsageError ELSE Returns(StateHas(i))

\* noState()(ctx) returning ctx.state.has()
Filter_noState_NotNegated(i) ==
  IF ~attached[i] THEN UsageError ELSE Returns(StateHas(i))

\* noState()(ctx)
Filter_noState(i) ==
  IF ~attached[i] THEN UsageError ELSE Returns(~StateHas(i))

\* a filter downstream of the middleware is evaluated on the context of
\* invocation i; what it raises leaves next() and the middleware
Evaluate(i, filter, stateNames, outcome) ==
  /\ verdict' = [verdict EXCEPT ![i] = Verdict(filter, stateNames, outcome)]
  /\ pc' = [pc EXCEPT ![i] = IF outcome.raised THEN "threw" ELSE @]
  /\ UNCHANGED <<Config, attempt, call, written, memStore, redis, heap, userId, prior,
                 sess, held, attached, nextCalls, lastOp, log, lastFinal>>

\* the state names filters are made with
FilterStates == States \cup {"c"}

FilterLists ==
  {<<>>} \cup {<<e>> : e \in FilterStates}
         \cup {<<e, f>> : e \in FilterStates, f \in FilterStates}

EvalState(i, stateName) ==
  /\ pc[i] \in {"handler", "passthrough"}
  /\ Evaluate(i, "state", <<stateName>>, Filter_state(i, stateName))

EvalStates(i, stateNames) ==
  /\ pc[i] \in {"handler", "passthrough"}
  /\ Evaluate(i, "states", stateNames, Filter_states(i, stateNames))

EvalInAnyState(i) ==
  /\ pc[i] \in {"handler", "passthrough"}
  /\ Evaluate(i, "inAnyState", <<>>, Filter_inAnyState(i))

EvalNoState(i) ==
  /\ pc[i] \in {"handler", "passthrough"}
  /\ Evaluate(i, "noState", <<>>, Filter_noState(i))

(* ------------------- createFSM: after the handlers --------------------- *)
EndStep(i, to, w, l) ==
  /\ pc' = [pc EXCEPT ![i] = to]
  /\ Commit(w, sess)
  /\ log' = [log EXCEPT ![i] = l]
  /\ UNCHANGED <<Config, attempt, call, verdict, userId, prior, attached, nextCalls,
                 lastOp>>

Final(i) == [state |-> sess[i].state, data |-> heap[sess[i].data]]

Track(i) ==
  lastFinal' = IF tracking THEN [lastFinal EXCEPT ![userId[i]] = Final(i)]
                           ELSE lastFinal

\* FlushState writing the state and the fields in one step
FlushState_WithData(i) ==
  /\ pc[i] = "handler"
  /\ sess[i].state # Null
  /\ EndStep(i, "awaitSetState",
             Storage_setData(Storage_setState(World, userId[i], sess[i].state),
                             userId[i], sess[i].data),
             Append(log[i], CallEv("setState", userId[i], sess[i].state,
                                   EmptyMap)))
  /\ UNCHANGED lastFinal

\* FlushState reporting the transition of the whole invocation once the
\* state is saved
FlushState_NotifyLate(i) ==
  /\ pc[i] = "handler"
  /\ sess[i].state # Null
  /\ EndStep(i, "awaitSetState",
             Storage_setState(World, userId[i], sess[i].state),
             UserCallback(i, Append(log[i], CallEv("setState", userId[i],
                                                   sess[i].state, EmptyMap)),
                          prior[i], sess[i].state))
  /\ UNCHANGED lastFinal

\* FlushState calling setData where setState belongs
FlushState_DataFirst(i) ==
  /\ pc[i] = "handler"
  /\ sess[i].state # Null
  /\ EndStep(i, "awaitSetState",
             Storage_setData(World, userId[i], sess[i].data),
             Append(log[i], CallEv("setData", userId[i], Null,
                                   heap[sess[i].data])))
  /\ UNCHANGED lastFinal

\* next() resolved and sessionData.state !== null: storage.setState(...)
FlushState(i) ==
  /\ pc[i] = "handler"
  /\ sess[i].state # Null
  /\ EndStep(i, "awaitSetState",
             Storage_setState(World, userId[i], sess[i].state),
             Append(log[i], CallEv("setState", userId[i], sess[i].state,
                                   EmptyMap)))
  /\ UNCHANGED lastFinal

\* FlushData leaving out the write of an empty mapping
FlushData_SkipEmpty(i) ==
  /\ pc[i] = "awaitSetState"
  /\ IF heap[sess[i].data] = EmptyMap
       THEN EndStep(i, "done", World, log[i])
       ELSE EndStep(i, "done",
                    Storage_setData(World, userId[i], sess[i].data),
                    Append(log[i], CallEv("setData", userId[i], Null,
                                          heap[sess[i].data])))
  /\ Track(i)

\* setState resolved: storage.setData(userId, sessionData.data), then return
FlushData(i) ==
  /\ pc[i] = "awaitSetState"
  /\ EndStep(i, "done",
             Storage_setData(World, userId[i], sess[i].data),
             Append(log[i], CallEv("setData", userId[i], Null,
                                   heap[sess[i].data])))
  /\ Track(i)

\* FlushClear clearing the record only when the facade has no fields
FlushClear_KeepFields(i) ==
  /\ pc[i] = "handler"
  /\ sess[i].state = Null
  /\ prior[i] # Null
  /\ IF heap[sess[i].data] = EmptyMap
       THEN EndStep(i, "done", Storage_clear(World, userId[i]),
                    Append(log[i], CallEv("clear", userId[i], Null, EmptyMap)))
       ELSE EndStep(i, "done", World, log[i])
  /\ Track(i)

\* FlushClear saving the emptied session instead of clearing the record
FlushClear_SaveData(i) ==
  /\ pc[i] = "handler"
  /\ sess[i].state = Null
  /\ prior[i] # Null
  /\ EndStep(i, "done", Storage_setData(World, userId[i], sess[i].data),
             Append(log[i], CallEv("setData", userId[i], Null,
                                   heap[sess[i].data])))
  /\ Track(i)

\* next() resolved, state is null and was not null: storage.clear(userId)
FlushClear(i) ==
  /\ pc[i] = "handler"
  /\ sess[i].state = Null
  /\ prior[i] # Null
  /\ EndStep(i, "done", Storage_clear(World, userId[i]),
             Append(log[i], CallEv("clear", userId[i], Null, EmptyMap)))
  /\ Track(i)

\* NoFlush saving the fields although there is no state
NoFlush_SaveData(i) ==
  /\ pc[i] = "handler"
  /\ sess[i].state = Null
  /\ prior[i] = Null
  /\ EndStep(i, "done", Storage_setData(World, userId[i], sess[i].data),
             Append(log[i], CallEv("setData", userId[i], Null,
                                   heap[sess[i].data])))
  /\ Track(i)

\* NoFlush with a plain `else`: clear whenever the state is null
NoFlush_AlwaysClear(i) ==
  /\ pc[i] = "handler"
  /\ sess[i].state = Null
  /\ prior[i] = Null
  /\ EndStep(i, "done", Storage_clear(World, userId[i]),
             Append(log[i], CallEv("clear", userId[i], Null, EmptyMap)))
  /\ Track(i)

\* next() resolved, state was null and still is: nothing is written
NoFlush(i) ==
  /\ pc[i] = "handler"
  /\ sess[i].state = Null
  /\ prior[i] = Null
  /\ EndStep(i, "done", World, log[i])
  /\ Track(i)

\* HandlerThrow with the save in a `finally`
HandlerThrow_Finally(i) ==
  /\ pc[i] = "handler"
  /\ EndStep(i, "threw",
             Storage_setData(World, userId[i], sess[i].data),
             Append(log[i], CallEv("setData", userId[i], Null,
                                   heap[sess[i].data])))
  /\ UNCHANGED lastFinal

\* next() rejected: the error leaves the middleware at `await next()`
HandlerThrow(i) ==
  /\ pc[i] = "handler"
  /\ EndStep(i, "threw", World, log[i])
  /\ UNCHANGED lastFinal

\* no user: next() resolved, return
PassReturn(i) ==
  /\ pc[i] = "passthrough"
  /\ EndStep(i, "done", World, log[i])
  /\ UNCHANGED lastFinal

\* no user: next() rejected
PassThrow(i) ==
  /\ pc[i] = "passthrough"
  /\ EndStep(i, "threw", World, log[i])
  /\ UNCHANGED lastFinal

(* ------------------ createFSM: a backend call fails -------------------- *)
\* A command of the Redis client may be rejected (the RedisClient methods
\* return promises); the method of the RedisStorage then rejects, and the
\* await in the middleware raises.  The keyspace is as before the call.
BackendFails(i, at, op, st, m) ==
  /\ storageKind = "redis"
  /\ pc[i] = at
  /\ EndStep(i, "failed", World, Append(log[i], CallEv(op, userId[i], st, m)))
  /\ UNCHANGED lastFinal

\* await storage.getState(userId) raises
GetStateFails(i) ==
  /\ storageKind = "redis"
  /\ pc[i] = "awaitGetState"
  /\ EndStep(i, "failed", World, log[i])
  /\ UNCHANGED lastFinal

\* await storage.getData(userId) raises
GetDataFails(i) ==
  /\ Len(log[i]) = 1
  /\ BackendFails(i, "awaitGetState", "getData", Null, EmptyMap)

\* await storage.setState(userId, sessionData.state) raises
SetStateFails(i) ==
  /\ sess[i].state # Null
  /\ BackendFails(i, "handler", "setState", sess[i].state, EmptyMap)

\* await storage.setData(userId, sessionData.data) raises
SetDataFails(i) ==
  /\ sess[i].state # Null
  /\ BackendFails(i, "awaitSetState", "setData", Null, heap[sess[i].data])

\* await storage.clear(userId) raises
ClearFails(i) ==
  /\ sess[i].state = Null
  /\ prior[i] # Null
  /\ BackendFails(i, "handler", "clear", Null, EmptyMap)

\* the invocation is over; its context and facade are dropped
Reset(i) ==
  /\ pc[i] \in {"done", "threw", "failed"}
  /\ pc' = [pc EXCEPT ![i] = "idle"]
  /\ userId' = [userId EXCEPT ![i] = NoUser]
  /\ prior' = [prior EXCEPT ![i] = Null]
  /\ attached' = [attached EXCEPT ![i] = FALSE]
  /\ nextCalls' = [nextCalls EXCEPT ![i] = 0]
  /\ lastOp' = [lastOp EXCEPT ![i] = "none"]
  /\ log' = [log EXCEPT ![i] = <<>>]
  /\ verdict' = [verdict EXCEPT ![i] = NoVerdict]
  /\ attempt' = [attempt EXCEPT ![i] = NoAttempt]
  /\ CommitHeld(World, [sess EXCEPT ![i] = NoSession],
                [held EXCEPT ![i] = NoRef])
  /\ UNCHANGED <<Config, call, lastFinal>>

(* ------------------ RedisStorage called directly ----------------------- *)
\* sanitizeUserId without the `userId <= 0` test
sanitizeUserId_IntegerOnly(x) ==
  [error |-> ~NumberIsInteger(x), id |-> x.whole]

\* sanitizeUserId(userId): raises unless userId is a positive integer
sanitizeUserId(x) ==
  [error |-> ~NumberIsInteger(x) \/ NotPositive(x), id |-> x.whole]

\* the call of caller c is over: it sent the commands of w and resolved
Resolve(c, op, x, w, result) ==
  /\ call' = [call EXCEPT ![c] = [NoCall EXCEPT !.pc = "done", !.op = op,
                                                 !.key = x, !.cmds = w.cmds,
                                                 !.result = result]]
  /\ Commit(w, sess)
  /\ UNCHANGED <<Config, attempt, verdict, pc, userId, prior, attached, nextCalls,
                 lastOp, log, lastFinal>>

\* the call of caller c is rejected with `Invalid userId`
Reject(c, op, x) ==
  /\ call' = [call EXCEPT ![c] = [NoCall EXCEPT !.pc = "failed", !.op = op,
                                                 !.key = x]]
  /\ Commit(World, sess)
  /\ UNCHANGED <<Config, attempt, verdict, pc, userId, prior, attached, nextCalls,
                 lastOp, log, lastFinal>>

\* storage.setState(userId, state)
CallSetState(c, x, st) ==
  /\ storageKind = "redis"
  /\ call[c].pc = "idle"
  /\ IF sanitizeUserId(x).error
       THEN Reject(c, "setState", x)
       ELSE Resolve(c, "setState", x,
                    Redis_setState(World, sanitizeUserId(x).id, st), NoResult)

\* storage.getState(userId)
CallGetState(c, x) ==
  /\ storageKind = "redis"
  /\ call[c].pc = "idle"
  /\ IF sanitizeUserId(x).error
       THEN Reject(c, "getState", x)
       ELSE LET u == sanitizeUserId(x).id
            IN  Resolve(c, "getState", x,
                        [World EXCEPT !.cmds =
                           <<Cmd("get", {getStateKey(u)}, NoExpiry)>>],
                        Result("state", Redis_getState(World, u), JsNull))

\* storage.setData(userId, data)
CallSetData(c, x, m) ==
  /\ storageKind = "redis"
  /\ call[c].pc = "idle"
  /\ IF sanitizeUserId(x).error
       THEN Reject(c, "setData", x)
       ELSE Resolve(c, "setData", x,
                    Redis_setData([World EXCEPT !.heap = Alloc(heap, m)],
                                  sanitizeUserId(x).id, NewRef(heap)),
                    NoResult)

\* storage.getData(userId)
CallGetData(c, x) ==
  /\ storageKind = "redis"
  /\ call[c].pc = "idle"
  /\ IF sanitizeUserId(x).error
       THEN Reject(c, "getData", x)
       ELSE LET g == Redis_getData(World, sanitizeUserId(x).id)
            IN  Resolve(c, "getData", x, g.w, Result("value", Null, g.value))

\* storage.clear(userId)
CallClear(c, x) ==
  /\ storageKind = "redis"
  /\ call[c].pc = "idle"
  /\ IF sanitizeUserId(x).error
       THEN Reject(c, "clear", x)
       ELSE Resolve(c, "clear", x, Redis_clear(World, sanitizeUserId(x).id),
                    NoResult)

\* storage.updateData(userId, data), up to the result of getData:
\* const current = (await this.getData(userId)) ?? {}
CallUpdateData(c, x, partial) ==
  /\ storageKind = "redis"
  /\ call[c].pc = "idle"
  /\ IF sanitizeUserId(x).error
       THEN Reject(c, "updateData", x)
       ELSE LET g == Redis_getData(World, sanitizeUserId(x).id)
            IN  /\ call' = [call EXCEPT ![c] =
                              [NoCall EXCEPT !.pc = "merging",
                                             !.op = "updateData", !.key = x,
                                             !.cmds = g.w.cmds,
                                             !.current = g.value.value,
                                             !.partial = partial]]
                /\ Commit(g.w, sess)
                /\ UNCHANGED <<Config, attempt, verdict, pc, userId, prior, attached,
                               nextCalls, lastOp, log, lastFinal>>

\* UpdateDataWrite merging into what is stored when it writes
UpdateDataWrite_Atomic(c) ==
  /\ call[c].pc = "merging"
  /\ LET u == sanitizeUserId(call[c].key).id
         cur == Redis_getData(World, u).value.value
         updated == Merge(cur, call[c].partial)
         w == Redis_setData([World EXCEPT !.heap = Alloc(heap, updated),
                                          !.cmds = call[c].cmds],
                            u, NewRef(heap))
     IN  /\ call' = [call EXCEPT ![c].pc = "done", ![c].cmds = w.cmds]
         /\ Commit(w, sess)
  /\ UNCHANGED <<Config, attempt, verdict, pc, userId, prior, attached, nextCalls,
                 lastOp, log, lastFinal>>

\* the rest of updateData: const updated = { ...current, ...data };
\* await this.setData(userId, updated)
UpdateDataWrite(c) ==
  /\ call[c].pc = "merging"
  /\ LET updated == Merge(call[c].current, call[c].partial)
         w == Redis_setData([World EXCEPT !.heap = Alloc(heap, updated),
                                          !.cmds = call[c].cmds],
                            sanitizeUserId(call[c].key).id, NewRef(heap))
     IN  /\ call' = [call EXCEPT ![c].pc = "done", ![c].cmds = w.cmds]
         /\ Commit(w, sess)
  /\ UNCHANGED <<Config, attempt, verdict, pc, userId, prior, attached, nextCalls,
                 lastOp, log, lastFinal>>

\* the caller has the outcome and may call again
CallReturn(c) ==
  /\ call[c].pc \in {"done", "failed"}
  /\ call' = [call EXCEPT ![c] = NoCall]
  /\ UNCHANGED <<Config, attempt, verdict, written, memStore, redis, heap, pc, userId,
                 prior, sess, held, attached, nextCalls, lastOp, log, lastFinal>>

(* ------------------ MemoryStorage called directly ---------------------- *)
\* storage.setState(userId, state) of a MemoryStorage
MemorySetState(c, u, st) ==
  /\ storageKind = "memory"
  /\ call[c].pc = "idle"
  /\ Resolve(c, "setState", Num(u, FALSE), Memory_setState(World, u, st),
             NoResult)

\* storage.getState(userId)
MemoryGetState(c, u) ==
  /\ storageKind = "memory"
  /\ call[c].pc = "idle"
  /\ Resolve(c, "getState", Num(u, FALSE), World,
             Result("state", Memory_getState(World, u), JsNull))

\* storage.setData(userId, data)
MemorySetData(c, u, m) ==
  /\ storageKind = "memory"
  /\ call[c].pc = "idle"
  /\ Resolve(c, "setData", Num(u, FALSE),
             Memory_setData([World EXCEPT !.heap = Alloc(heap, m)], u,
                            NewRef(heap)),
             NoResult)

\* storage.getData(userId)
MemoryGetData(c, u) ==
  /\ storageKind = "memory"
  /\ call[c].pc = "idle"
  /\ LET g == Memory_getData(World, u)
     IN  Resolve(c, "getData", Num(u, FALSE), g.w,
                 Result("value", Null,
                        IF g.ref = NoRef THEN JsNull
                        ELSE JsValue("object", g.w.heap[g.ref])))

\* updateData with an await between its read and its write: the record is
\* read in one step and the merged mapping is stored in a later one
MemoryUpdateData_Awaited(c, u, partial) ==
  /\ storageKind = "memory"
  /\ \/ /\ call[c].pc = "idle"
        /\ call' = [call EXCEPT ![c] =
                      [NoCall EXCEPT !.pc = "merging", !.op = "updateData",
                                     !.key = Num(u, FALSE),
                                     !.current = StoredFields(u),
                                     !.partial = partial]]
        /\ Commit(World, sess)
     \/ /\ call[c].pc = "merging"
        /\ call[c].key = Num(u, FALSE)
        /\ call[c].partial = partial
        /\ call' = [call EXCEPT ![c].pc = "done"]
        /\ Commit(Memory_setData([World EXCEPT !.heap =
                                    Alloc(heap, Merge(call[c].current,
                                                      partial))],
                                 u, NewRef(heap)), sess)
  /\ UNCHANGED <<Config, attempt, verdict, pc, userId, prior, attached,
                 nextCalls, lastOp, log, lastFinal>>

\* storage.updateData(userId, data): no await between read and write
MemoryUpdateData(c, u, partial) ==
  /\ storageKind = "memory"
  /\ call[c].pc = "idle"
  /\ call' = [call EXCEPT ![c] =
                [NoCall EXCEPT !.pc = "done", !.op = "updateData",
                               !.key = Num(u, FALSE),
                               !.current = StoredFields(u),
                               !.partial = partial]]
  /\ Commit(Memory_updateData(World, u, partial), sess)
  /\ UNCHANGED <<Config, attempt, verdict, pc, userId, prior, attached,
                 nextCalls, lastOp, log, lastFinal>>

\* storage.clear(userId)
MemoryClear(c, u) ==
  /\ storageKind = "memory"
  /\ call[c].pc = "idle"
  /\ Resolve(c, "clear", Num(u, FALSE), Memory_clear(World, u), NoResult)

(* ------------------------ the Redis server ----------------------------- *)
\* texts another client of the server may leave under a data key
Texts ==
  {Text(k, ms) : k \in {"string", "array"}, ms \in {<<>>, <<<<"0", 1>>>>}}
    \cup {Text("object", ms) : ms \in {<<>>, <<<<"x", 1>>>>}}
    \cup {Text(k, <<>>) : k \in {"empty", "invalid", "null", "number"}}

\* another client sets the data key of user u
ForeignSet(u, text) ==
  /\ redis' = RedisSet(redis, getDataKey(u), text)
  /\ written' = [k \in (DOMAIN written) \ {getDataKey(u)} |-> written[k]]
  /\ UNCHANGED <<Config, attempt, verdict, call, memStore, heap, pc, userId, prior,
                 sess, held, attached, nextCalls, lastOp, log, lastFinal>>

\* the longest expiry in use
MaxTtl == CHOOSE t \in TtlOptions : \A q \in TtlOptions : q <= t

\* a second passes: keys with an expiry lose a second of it and are removed
\* when none is left
Tick ==
  /\ redis' = [k \in {q \in DOMAIN redis : redis[q].exp # 1} |->
                 IF redis[k].exp = NoExpiry
                   THEN redis[k]
                   ELSE [redis[k] EXCEPT !.exp = @ - 1]]
  /\ written' = [k \in DOMAIN written |->
                   IF written[k] < MaxTtl THEN written[k] + 1 ELSE written[k]]
  /\ UNCHANGED <<Config, attempt, verdict, call, memStore, heap, pc, userId, prior,
                 sess, held, attached, nextCalls, lastOp, log, lastFinal>>

(* --------------------------- specifications ---------------------------- *)
\* grammy handles one update at a time unless told otherwise: one slot
Sequential == {i \in Procs : \A j \in Procs : i <= j}

\* the updates of one user
OneUser == {u \in UserIds : \A v \in UserIds : u <= v}

Handler(i) ==
  \/ \E s \in States : StateSet(i, s)
  \/ StateClear(i)
  \/ \E k \in Names, v \in Values : DataSet(i, k, v)
  \/ \E k \in Names : DataDelete(i, k)
  \/ \E m \in Mappings : DataSetAll(i, m)
  \/ \E m \in Mappings : DataUpdate(i, m)
  \/ DataClear(i)
  \/ \E k \in Names, v \in Values, strict \in BOOLEAN :
       FieldAssign(i, k, v, strict)
  \/ FsmClear(i)

Middleware(i) ==
  \/ \E u \in OneUser \cup {NoUser} : Start(i, u)
  \/ Load(i)
  \/ FlushState(i)
  \/ FlushData(i)
  \/ FlushClear(i)
  \/ NoFlush(i)
  \/ HandlerThrow(i)
  \/ PassReturn(i)
  \/ PassThrow(i)
  \/ Reset(i)

Next == \E i \in Sequential : Middleware(i) \/ Handler(i)

Spec == Init /\ [][Next]_vars

\* the same dispatch with handlers that never raise, no onStateChange
\* configured, and lastFinal kept
MiddlewareNormal(i) ==
  \/ \E u \in OneUser \cup {NoUser} : Start(i, u)
  \/ Load(i)
  \/ FlushState(i)
  \/ FlushData(i)
  \/ FlushClear(i)
  \/ NoFlush(i)
  \/ PassReturn(i)
  \/ Reset(i)

NextNormal == \E i \in Sequential : MiddlewareNormal(i) \/ Handler(i)

SpecNormal == InitWith(TRUE, {FALSE}) /\ [][NextNormal]_vars

\* the middleware followed by filters and by handlers that set and clear
\* the state
Filters(i) ==
  \/ \E e \in FilterStates : EvalState(i, e)
  \/ \E l \in FilterLists : EvalStates(i, l)
  \/ EvalInAnyState(i)
  \/ EvalNoState(i)

HandlerFilter(i) ==
  \/ \E s \in States : StateSet(i, s)
  \/ StateClear(i)

NextFilter ==
  \E i \in Sequential : Middleware(i) \/ HandlerFilter(i) \/ Filters(i)

SpecFilter == InitWith(FALSE, {FALSE}) /\ [][NextFilter]_vars

\* updates of the users handled concurrently (as with the runner of grammy):
\* every invocation may be suspended at each of its awaits while others
\* run; slot i takes the updates of user i
HandlerConcurrent(i) ==
  \/ \E s \in States : StateSet(i, s)
  \/ \E k \in {"x"}, v \in {1} : DataSet(i, k, v)
  \/ FsmClear(i)

MiddlewareConcurrent(i) ==
  \/ \E u \in UserIds \cap {i} : Start(i, u)
  \/ Load(i)
  \/ FlushState(i)
  \/ FlushData(i)
  \/ FlushClear(i)
  \/ NoFlush(i)
  \/ Reset(i)

NextConcurrent ==
  \E i \in Procs : MiddlewareConcurrent(i) \/ HandlerConcurrent(i)

SpecConcurrent == InitWith(FALSE, {FALSE}) /\ [][NextConcurrent]_vars

\* handlers that read and write fields by name, in strict-mode and in
\* sloppy-mode code.  Field names: a plain name, a method name of the
\* namespace, a name inherited from Object.prototype
FieldNames == {"x", "get", "toString"}

HandlerData(i) ==
  \/ \E st \in {"a"} : StateSet(i, st)
  \/ \E k \in FieldNames, v \in {1} : DataSet(i, k, v)
  \/ \E k \in FieldNames : DataDelete(i, k)
  \/ DataClear(i)
  \/ \E k \in FieldNames, v \in {2}, strict \in BOOLEAN :
       FieldAssign(i, k, v, strict)
  \/ FsmClear(i)

MiddlewareData(i) ==
  \/ \E u \in OneUser : Start(i, u)
  \/ Load(i)
  \/ FlushState(i)
  \/ FlushData(i)
  \/ FlushClear(i)
  \/ NoFlush(i)
  \/ HandlerThrow(i)
  \/ Reset(i)

NextData == \E i \in Sequential : MiddlewareData(i) \/ HandlerData(i)

SpecData == InitWith(TRUE, {FALSE}) /\ [][NextData]_vars

\* handlers that keep the mapping getAll() returned while they go on using
\* the data surface
HandlerHeld(i) ==
  \/ \E st \in {"a"} : StateSet(i, st)
  \/ DataGetAll(i)
  \/ \E k \in {"x"}, v \in Values : DataSet(i, k, v)
  \/ \E k \in {"x"} : DataDelete(i, k)
  \/ \E k \in {"y"}, v \in {1}, strict \in {TRUE} :
       FieldAssign(i, k, v, strict)
  \/ \E m \in {[n \in {"x"} |-> 2]} : DataSetAll(i, m)
  \/ \E m \in {[n \in {"y"} |-> 2]} : DataUpdate(i, m)
  \/ DataClear(i)
  \/ FsmClear(i)

NextHeld == \E i \in Sequential : MiddlewareData(i) \/ HandlerHeld(i)

SpecHeld == InitWith(FALSE, {FALSE}) /\ [][NextHeld]_vars

\* handlers that use the convenience setters ctx.state = v and ctx.data = v
\* beside the methods, with onStateChange configured
Shapes ==
  {JsString(st) : st \in States}
    \cup {JsUndefined, JsNullLiteral, JsNumber(1), JsObject}

HandlerAssign(i) ==
  \/ \E st \in States : StateSet(i, st)
  \/ StateClear(i)
  \/ \E v \in Shapes : StateAssign(i, v)
  \/ \E v \in Shapes : DataAssign(i, v)
  \/ \E k \in {"x"}, v \in {1} : DataSet(i, k, v)
  \/ DataClear(i)

NextAssign == \E i \in Sequential : MiddlewareData(i) \/ HandlerAssign(i)

SpecAssign == InitWith(TRUE, {TRUE}) /\ [][NextAssign]_vars

\* createFSM({ storage: "redis", redis: { client } }) with a client whose
\* commands may fail
InitFailure ==
  Installed([storage |-> StorageValue("string", "redis", 0), client |-> TRUE,
             ttl |-> 0], FALSE, {FALSE})

Failure(i) ==
  \/ GetStateFails(i)
  \/ GetDataFails(i)
  \/ SetStateFails(i)
  \/ SetDataFails(i)
  \/ ClearFails(i)

NextFailure ==
  \E i \in Sequential : MiddlewareNormal(i) \/ Handler(i) \/ Failure(i)

SpecFailure == InitFailure /\ [][NextFailure]_vars

\* createFSM called with any options; the middleware, once returned, is
\* installed and handles one update at a time
InitConfig ==
  /\ options \in Options
  /\ constructed = "no"
  /\ storageKind = "none"
  /\ ttl = 0
  /\ Fresh(FALSE, {FALSE})

HandlerConfig(i) ==
  \/ \E s \in States : StateSet(i, s)
  \/ StateClear(i)
  \/ \E k \in Names, v \in Values : DataSet(i, k, v)

NextConfig ==
  \/ CreateFSM
  \/ \E i \in Sequential : MiddlewareNormal(i) \/ HandlerConfig(i)

SpecConfig == InitConfig /\ [][NextConfig]_vars

\* a RedisStorage constructed with any ttl option and passed to createFSM;
\* one caller uses its methods, other clients use the server, time passes
InitRedis ==
  \E t \in TtlOptions :
    Installed([storage |-> StorageValue("object", "RedisStorage", t),
               client |-> FALSE, ttl |-> 0], FALSE, {FALSE})

OneCaller == {c \in Callers : \A d \in Callers : c <= d}

ValidKeys == {sanitizeUserId(x).id : x \in {y \in KeyArgs : ~sanitizeUserId(y).error}}

\* the data arguments of direct calls
DataArgs == {[n \in {"x"} |-> 1], [n \in {"y"} |-> 2]}

StorageCall(c) ==
  \/ \E x \in KeyArgs, st \in States : CallSetState(c, x, st)
  \/ \E x \in KeyArgs : CallGetState(c, x)
  \/ \E x \in KeyArgs, m \in DataArgs : CallSetData(c, x, m)
  \/ \E x \in KeyArgs : CallGetData(c, x)
  \/ \E x \in KeyArgs : CallClear(c, x)
  \/ \E x \in KeyArgs, m \in DataArgs : CallUpdateData(c, x, m)
  \/ UpdateDataWrite(c)
  \/ CallReturn(c)

NextRedis ==
  \/ \E c \in OneCaller : StorageCall(c)
  \/ \E u \in ValidKeys, text \in Texts : ForeignSet(u, text)
  \/ Tick

SpecRedis == InitRedis /\ [][NextRedis]_vars

\* a RedisStorage without ttl whose updateData is called by two callers at
\* a time; nothing else writes
InitUpdate ==
  Installed([storage |-> StorageValue("object", "RedisStorage", 0),
             client |-> FALSE, ttl |-> 0], FALSE, {FALSE})

NextUpdate ==
  \E c \in Callers :
    \/ \E x \in KeyArgs, m \in DataArgs : CallUpdateData(c, x, m)
    \/ UpdateDataWrite(c)
    \/ CallReturn(c)

SpecUpdate == InitUpdate /\ [][NextUpdate]_vars

\* a MemoryStorage or a RedisStorage (without ttl) is constructed and
\* passed to createFSM; beside the middleware one caller uses its methods
\* for the same user
InitStorage ==
  \E class \in {"MemoryStorage", "RedisStorage"} :
    Installed([storage |-> StorageValue("object", class, 0),
               client |-> FALSE, ttl |-> 0], TRUE, {FALSE})

\* the partial mappings passed to update and updateData
Partials == {[n \in {"x"} |-> 1], [n \in {"x", "y"} |-> 2]}

HandlerStorage(i) ==
  \/ \E st \in {"a"} : StateSet(i, st)
  \/ StateClear(i)
  \/ \E m \in Partials : DataUpdate(i, m)
  \/ DataClear(i)

DirectCall(c) ==
  \/ \E u \in OneUser, st \in {"a"} : CallSetState(c, Num(u, FALSE), st)
  \/ \E u \in OneUser : CallGetState(c, Num(u, FALSE))
  \/ \E u \in OneUser, m \in Partials : CallSetData(c, Num(u, FALSE), m)
  \/ \E u \in OneUser : CallGetData(c, Num(u, FALSE))
  \/ \E u \in OneUser : CallClear(c, Num(u, FALSE))
  \/ \E u \in OneUser, m \in Partials : CallUpdateData(c, Num(u, FALSE), m)
  \/ UpdateDataWrite(c)
  \/ \E u \in OneUser, st \in {"a"} : MemorySetState(c, u, st)
  \/ \E u \in OneUser : MemoryGetState(c, u)
  \/ \E u \in OneUser, m \in Partials : MemorySetData(c, u, m)
  \/ \E u \in OneUser : MemoryGetData(c, u)
  \/ \E u \in OneUser : MemoryClear(c, u)
  \/ \E u \in OneUser, m \in Partials : MemoryUpdateData(c, u, m)
  \/ CallReturn(c)

NextStorage ==
  \/ \E i \in Sequential : MiddlewareNormal(i) \/ HandlerStorage(i)
  \/ \E c \in OneCaller : DirectCall(c)

SpecStorage == InitStorage /\ [][NextStorage]_vars

\* two updates of one user are handled at a time (a runner, or webhooks
\* served concurrently): both invocations are for the same user key, and
\* their handlers make at most one transition and write the field x
HandlerSameKey(i) ==
  \/ \E st \in States : sess[i].state = prior[i] /\ StateSet(i, st)
  \/ sess[i].state = prior[i] /\ StateClear(i)
  \/ \E k \in {"x"}, v \in Values : DataSet(i, k, v)

MiddlewareSameKey(i) ==
  \/ \E u \in OneUser : Start(i, u)
  \/ Load(i)
  \/ FlushState(i)
  \/ FlushData(i)
  \/ FlushClear(i)
  \/ NoFlush(i)
  \/ Reset(i)

NextSameKey == \E i \in Procs : MiddlewareSameKey(i) \/ HandlerSameKey(i)

SpecSameKey == InitWith(FALSE, {FALSE}) /\ [][NextSameKey]_vars

\* createFSM({ storage: "redis", redis: { client }, ttl }) with a ttl: the
\* middleware handles the updates of one user one at a time while the
\* seconds pass on the server, before, between and after its backend calls
InitTtl ==
  \E t \in TtlOptions \ {0} :
    Installed([storage |-> StorageValue("string", "redis", 0),
               client |-> TRUE, ttl |-> t], TRUE, {FALSE})

HandlerTtl(i) ==
  \/ \E st \in States : StateSet(i, st)
  \/ StateClear(i)
  \/ \E k \in {"x"}, v \in Values : DataSet(i, k, v)

MiddlewareTtl(i) ==
  \/ \E u \in OneUser : Start(i, u)
  \/ Load(i)
  \/ FlushState(i)
  \/ FlushData(i)
  \/ FlushClear(i)
  \/ NoFlush(i)
  \/ Reset(i)

NextTtl ==
  \/ \E i \in Sequential : MiddlewareTtl(i) \/ HandlerTtl(i)
  \/ Tick

SpecTtl == InitTtl /\ [][NextTtl]_vars

\* a MemoryStorage whose updateData is called by two callers at a time,
\* for any user and with any partial, among calls that remove no field
InitMemoryUpdate ==
  Installed([storage |-> StorageValue("object", "MemoryStorage", 0),
             client |-> FALSE, ttl |-> 0], FALSE, {FALSE})

NextMemoryUpdate ==
  \E c \in Callers :
    \/ \E u \in UserIds, m \in DataArgs \cup Partials :
         MemoryUpdateData(c, u, m)
    \/ \E u \in UserIds, st \in {"a"} : MemorySetState(c, u, st)
    \/ \E u \in UserIds : MemoryGetState(c, u)
    \/ \E u \in UserIds : MemoryGetData(c, u)
    \/ CallReturn(c)

SpecMemoryUpdate == InitMemoryUpdate /\ [][NextMemoryUpdate]_vars

(* ------------------------------ claims --------------------------------- *)
\* an invocation for a user, over without an error
Returned(i) == pc[i] = "done" /\ userId[i] # NoUser

LoadCalls(u) ==
  <<CallEv("getState", u, Null, EmptyMap), CallEv("getData", u, Null, EmptyMap)>>

Fields(i) == heap[sess[i].data]

\* C1: write-avoidance.  An invocation that loaded no state and whose facade
\* has no state when the handler returns makes the two load reads and no
\* other backend call, whatever the handler did to the fields.
C1_WriteAvoidance ==
  \A i \in Procs :
    (Returned(i) /\ prior[i] = Null /\ sess[i].state = Null)
      => Calls(log[i]) = LoadCalls(userId[i])

C1_Witness ==
  \E i \in Procs :
    /\ Returned(i) /\ prior[i] = Null /\ sess[i].state = Null
    /\ lastOp[i] = "data.set"
    /\ Fields(i) # EmptyMap

\* C2: a handler that returns with a state set is followed by exactly two
\* backend writes for its user, setState(final state) and then
\* setData(final fields); while setState is awaited setData has not been
\* called, and clear is never called.
C2_FlushStateThenData ==
  \A i \in Procs :
    /\ pc[i] = "awaitSetState"
         => Writes(log[i]) =
              <<CallEv("setState", userId[i], sess[i].state, EmptyMap)>>
    /\ (Returned(i) /\ sess[i].state # Null)
         => Writes(log[i]) =
              <<CallEv("setState", userId[i], sess[i].state, EmptyMap),
                CallEv("setData", userId[i], Null, Fields(i))>>

C2_Witness ==
  \E i \in Procs :
    /\ Returned(i) /\ sess[i].state = "b" /\ prior[i] = "a"
    /\ Fields(i) # EmptyMap
    /\ Len(Writes(log[i])) = 2

\* C3: a handler that returns with no state, after a state was loaded, is
\* followed by exactly one backend write, clear(user).
C3_FlushClear ==
  \A i \in Procs :
    (Returned(i) /\ sess[i].state = Null /\ prior[i] # Null)
      => Writes(log[i]) = <<CallEv("clear", userId[i], Null, EmptyMap)>>

C3_Witness ==
  \E i \in Procs :
    /\ Returned(i) /\ sess[i].state = Null /\ prior[i] # Null
    /\ lastOp[i] = "state.clear"
    /\ Len(Writes(log[i])) = 1

\* C4: a handler that raises ends the invocation with the error: no
\* setState, setData or clear call was made and none can follow.
C4_ThrowSkipsFlush ==
  \A i \in Procs :
    pc[i] = "threw"
      => /\ Writes(log[i]) = <<>>
         /\ ~ENABLED FlushState(i)
         /\ ~ENABLED FlushData(i)
         /\ ~ENABLED FlushClear(i)

C4_Witness ==
  \E i \in Procs :
    /\ pc[i] = "threw" /\ userId[i] # NoUser
    /\ sess[i].state # prior[i]
    /\ Fields(i) # EmptyMap

\* C7: for an update without a user the middleware calls next() once, makes
\* no backend call and attaches no facade.
C7_NoUserPassThrough ==
  \A i \in Procs :
    (pc[i] # "idle" /\ userId[i] = NoUser)
      => /\ log[i] = <<>>
         /\ ~attached[i]
         /\ sess[i] = NoSession
         /\ nextCalls[i] = 1

C7_Witness ==
  \E i \in Procs : pc[i] = "done" /\ userId[i] = NoUser /\ nextCalls[i] = 1

\* C5: what the backend returns for a user (getState, getData) is not
\* changed by any facade operation of a handler; only a flush changes it.
C5_FacadePrivate ==
  [][\A i \in Procs :
       (pc[i] = "handler" /\ pc'[i] = "handler")
         => /\ StoredState(userId[i])' = StoredState(userId[i])
            /\ StoredFields(userId[i])' = StoredFields(userId[i])]_vars

\* the record a load is to find after the invocations completed so far
Expected(u) ==
  IF lastFinal[u].state # Null THEN lastFinal[u]
                               ELSE [state |-> Null, data |-> EmptyMap]

NoEntry(u) ==
  /\ u \notin DOMAIN memStore
  /\ getStateKey(u) \notin DOMAIN redis
  /\ getDataKey(u) \notin DOMAIN redis

\* C6: with invocations handled one after another and handlers that return,
\* each invocation loads the final (state, fields) of the previous one for
\* its user when that one ended with a state, and (no state, no fields)
\* otherwise; an invocation that ends with a state leaves exactly its facade
\* in the backend, and one that ends without leaves no entry.
C6_SessionContinuity ==
  \A i \in Procs :
    /\ (pc[i] = "handler" /\ lastOp[i] = "none")
         => [state |-> sess[i].state, data |-> Fields(i)] = Expected(userId[i])
    /\ (Returned(i) /\ sess[i].state # Null)
         => /\ StoredState(userId[i]) = sess[i].state
            /\ StoredFields(userId[i]) = Fields(i)
    /\ (Returned(i) /\ sess[i].state = Null) => NoEntry(userId[i])

C6_Witness ==
  \E i \in Procs :
    /\ pc[i] = "handler" /\ lastOp[i] = "none"
    /\ sess[i].state = "a"
    /\ Fields(i) = [n \in {"x"} |-> 2]
    /\ lastFinal[userId[i]].state = "a"

\* a step of the handler of invocation i that is the facade operation op
FacadeOp(i, op) ==
  pc[i] = "handler" /\ pc'[i] = "handler" /\ lastOp'[i] = op

\* C8: state.set and state.clear call onStateChange exactly when they change
\* the state: once, with (user, old, new), when the new value differs from
\* the current one, and not at all when it does not.
C8_CallbackIffChange ==
  [][\A i \in Procs :
       (onStateChange /\ (FacadeOp(i, "state.set") \/ FacadeOp(i, "state.clear")))
         => log'[i] = IF sess'[i].state # sess[i].state
                        THEN Append(log[i], CbEv(userId[i], sess[i].state,
                                                 sess'[i].state))
                        ELSE log[i]]_vars

C8_Witness ==
  \E i \in Procs :
    /\ onStateChange
    /\ pc[i] = "handler" /\ lastOp[i] = "state.set"
    /\ prior[i] = "a" /\ sess[i].state = "b"
    /\ Callbacks(log[i]) = <<CbEv(userId[i], "a", "b")>>

\* C9: fsm.clear leaves the facade with no state and no fields in one step
\* and calls onStateChange once, with (old, null), when there was a state,
\* and not at all when there was none, fields or no fields.
C9_FsmClear ==
  [][\A i \in Procs :
       FacadeOp(i, "fsm.clear")
         => /\ sess'[i].state = Null
            /\ heap'[sess'[i].data] = EmptyMap
            /\ log'[i] = IF onStateChange /\ sess[i].state # Null
                           THEN Append(log[i],
                                       CbEv(userId[i], sess[i].state, Null))
                           ELSE log[i]]_vars

C9_Witness ==
  \E i \in Procs :
    /\ onStateChange
    /\ pc[i] = "handler" /\ lastOp[i] = "fsm.clear"
    /\ prior[i] = "a"
    /\ sess[i].state = Null /\ Fields(i) = EmptyMap
    /\ Callbacks(log[i]) = <<CbEv(userId[i], "a", Null)>>

\* the state the callbacks made so far have reported
Reported(i) ==
  LET cbs == Callbacks(log[i])
  IN  IF cbs = <<>> THEN prior[i] ELSE cbs[Len(cbs)].new

\* C10: onStateChange is called when the facade commits the transition: at
\* every moment the callbacks made so far report the facade's state, also
\* after a handler that raised, and no callback follows a flush call.
C10_CallbackAtCommit ==
  \A i \in Procs :
    (onStateChange /\ attached[i])
      => /\ Reported(i) = sess[i].state
         /\ \A j, k \in 1..Len(log[i]) :
              (j < k /\ log[i][j].op \in WriteOps)
                => log[i][k].op # "onStateChange"

C10_Witness ==
  \E i \in Procs :
    /\ onStateChange
    /\ pc[i] = "threw"
    /\ prior[i] = Null
    /\ Callbacks(log[i]) = <<CbEv(userId[i], Null, "a")>>

\* options that select the Redis backend: the identifier, or an instance
SelectsRedis(o) ==
  \/ o.storage = StorageValue("string", "redis", 0)
  \/ o.storage.kind = "object" /\ o.storage.value = "RedisStorage"

\* C11: with options.ttl set, every key the Redis backend wrote (state and
\* data sub-key) carries that expiry, whether the backend was selected by
\* the identifier "redis" or by passing a RedisStorage instance.
C11_TtlOnEveryWrite ==
  (constructed = "ready" /\ SelectsRedis(options) /\ options.ttl # 0)
    => \A key \in DOMAIN redis : redis[key].exp = options.ttl

\* options createFSM is documented to reject
Misconfigured(o) ==
  \/ o.storage = StorageValue("string", "redis", 0) /\ ~o.client
  \/ /\ o.storage \notin {StorageValue("string", id, 0) : id \in Backends}
     /\ ~(o.storage.kind = "object"
            /\ o.storage.value \in {"RedisStorage", "MemoryStorage"})

\* C18: createFSM ends with a configuration error and no middleware when
\* "redis" is selected without a client and for every options.storage that
\* is neither "memory", "redis" nor a backend instance; no invocation ever
\* starts under such options.
C18_ConfigErrorAtConstruction ==
  (constructed # "no" /\ Misconfigured(options))
    => /\ constructed = "error"
       /\ \A i \in Procs : pc[i] = "idle"

\* the commands of a call that write
WriteCmds(cs) == SelectSeq(cs, LAMBDA c : c.cmd # "get")

\* the key a write call is about
WrittenKey(c) ==
  IF call[c].op = "setState" THEN getStateKey(call[c].key.whole)
                             ELSE getDataKey(call[c].key.whole)

Elapsed(key) == key \in DOMAIN written /\ written[key] >= ttl

\* C12: for a RedisStorage with a positive ttl, a completed setState,
\* setData or updateData sent exactly one writing command, a setex of its
\* key with that ttl; and once ttl seconds have passed since the storage
\* wrote a key, getState and getData return null for it.
C12_SetWithExpiry ==
  ttl # 0 =>
    /\ \A c \in Callers :
         (call[c].pc = "done"
            /\ call[c].op \in {"setState", "setData", "updateData"})
           => WriteCmds(call[c].cmds) = <<Cmd("setex", {WrittenKey(c)}, ttl)>>
    /\ \A u \in ValidKeys :
         /\ Elapsed(getStateKey(u)) => Redis_getState(World, u) = Null
         /\ Elapsed(getDataKey(u)) => Redis_getData(World, u).value = JsNull

C12_Witness ==
  /\ ttl # 0
  /\ \E c \in Callers, u \in ValidKeys :
       /\ call[c].pc = "done" /\ call[c].op = "getData"
       /\ call[c].key = Num(u, FALSE)
       /\ call[c].result.value = JsNull
       /\ Elapsed(getDataKey(u))
       /\ Elapsed(getStateKey(u))

\* C14: updateData writes the mapping it read merged with its partial,
\* whatever is stored by the time it writes; with two calls for one key
\* and disjoint partials both can complete with the keys of one partial
\* missing from the stored mapping (the witness).
C14_ReadMergeWrite ==
  [][\A c \in Callers :
       (call[c].pc = "merging" /\ call'[c].pc = "done")
         => StoredFields(call[c].key.whole)'
              = Merge(call[c].current, call[c].partial)]_vars

C14_Witness ==
  \E c, d \in Callers :
    /\ c # d
    /\ call[c].pc = "done" /\ call[c].op = "updateData"
    /\ call[d].pc = "done" /\ call[d].op = "updateData"
    /\ call[c].key = call[d].key
    /\ DOMAIN call[c].partial # {} /\ DOMAIN call[d].partial # {}
    /\ DOMAIN call[c].partial \cap DOMAIN call[d].partial = {}
    /\ DOMAIN call[c].partial \cap DOMAIN StoredFields(call[c].key.whole) = {}

\* C16: getData of the Redis backend resolves, for every text stored under
\* the data key, to null or to a key-to-value mapping (an object); what is
\* no mapping is reported as null.
C16_GetDataNoneOrMapping ==
  \A c \in Callers :
    (call[c].pc = "done" /\ call[c].op = "getData")
      => call[c].result.value.kind \in {"null", "object"}

PositiveInteger(x) == ~x.half /\ x.whole >= 1

\* C17: a RedisStorage method called with a userId that is no positive
\* integer is rejected without a command sent to the client, and the
\* keyspace is as before.
C17_InvalidKeyFailsFast ==
  [][\A c \in Callers :
       (call[c].pc = "idle" /\ call'[c].pc # "idle"
          /\ ~PositiveInteger(call'[c].key))
         => /\ call'[c].pc = "failed"
            /\ call'[c].cmds = <<>>
            /\ redis' = redis]_vars

C17_Witness ==
  \E c \in Callers :
    /\ call[c].pc = "failed" /\ call[c].op = "clear"
    /\ call[c].key = Num(0, FALSE)
    /\ getStateKey(1) \in DOMAIN redis

\* C13: a backend call that fails during the flush ends the invocation
\* with the error, no backend call follows it, and the flush is all or
\* nothing: when the backend holds the new state of the invocation it
\* also holds its fields, not the fields stored before.
C13_NoPartialFlush ==
  \A i \in Procs :
    (pc[i] = "failed" /\ attached[i])
      => /\ ~ENABLED FlushState(i)
         /\ ~ENABLED FlushData(i)
         /\ ~ENABLED FlushClear(i)
         /\ (sess[i].state # prior[i]
               /\ StoredState(userId[i]) = sess[i].state)
              => StoredFields(userId[i]) = Fields(i)

\* the fields of the facade of invocation i, none when it has no facade
FacadeFields(i) == IF sess[i].data = NoRef THEN EmptyMap ELSE Fields(i)

\* this step is a step of invocation i
Acts(i) ==
  \/ <<pc[i], userId[i], lastOp[i], log[i], sess[i].state>>'
       # <<pc[i], userId[i], lastOp[i], log[i], sess[i].state>>
  \/ FacadeFields(i)' # FacadeFields(i)

\* the next step of the middleware for invocation j can be taken
CanProceed(j) ==
  /\ pc[j] = "idle" => \A u \in UserIds \cap {j} : ENABLED Start(j, u)
  /\ pc[j] = "awaitGetState" => ENABLED Load(j)
  /\ pc[j] = "handler"
       => ENABLED (FlushState(j) \/ FlushClear(j) \/ NoFlush(j))
  /\ pc[j] = "awaitSetState" => ENABLED FlushData(j)
  /\ pc[j] = "done" => ENABLED Reset(j)

\* C15: a step of an invocation for user k, a backend call included, leaves
\* what is stored for every other user as it was; and wherever another
\* invocation is suspended (handler, backend call), an invocation can take
\* its next step of loading, running and flushing.
C15_KeysIndependent ==
  /\ [](\A j \in Procs : CanProceed(j))
  /\ [][\A i \in Procs :
         Acts(i) =>
           \A k \in UserIds \ {userId[i], userId'[i]} :
             /\ StoredState(k)' = StoredState(k)
             /\ StoredFields(k)' = StoredFields(k)]_vars

C15_Witness ==
  \E i, j \in Procs :
    /\ pc[i] = "awaitSetState" /\ pc[j] = "done"
    /\ userId[i] # NoUser /\ userId[j] # NoUser /\ userId[i] # userId[j]
    /\ lastOp[j] = "fsm.clear" /\ prior[j] # Null
    /\ StoredState(userId[i]) = sess[i].state
    /\ prior[i] # Null /\ prior[i] # sess[i].state
    /\ StoredState(userId[j]) = Null

\* this step evaluates a filter on the context of invocation i
Evaluated(i) == verdict'[i] # verdict[i] /\ verdict'[i] # NoVerdict

\* what the filter of verdict v is to return for the facade state cur
Matches(v, cur) ==
  CASE v.filter = "state" -> cur = v.stateNames[1]
    [] v.filter = "states" ->
         cur # Null /\ cur \in {v.stateNames[j] : j \in DOMAIN v.stateNames}
    [] v.filter = "inAnyState" -> cur # Null
    [] v.filter = "noState" -> cur = Null

\* C19: with a facade attached, state(e) returns whether the facade state
\* is e, states(e1..en) whether it is set and one of e1..en, inAnyState()
\* whether it is set and noState() whether it is not; evaluating a filter
\* changes neither the facade nor the backend.
C19_FiltersMatchState ==
  [][\A i \in Procs :
       (attached[i] /\ Evaluated(i))
         => /\ verdict'[i].outcome = Returns(Matches(verdict'[i], sess[i].state))
            /\ UNCHANGED <<sess, heap, memStore, redis>>]_vars

C19_Witness ==
  \E i \in Procs :
    /\ attached[i] /\ pc[i] = "handler"
    /\ sess[i].state = "a"
    /\ verdict[i] = Verdict("states", <<"b", "a">>, Returns(TRUE))

\* C20: each of the four filters, evaluated on a context without a facade,
\* raises the usage error and returns no boolean.
C20_FiltersNeedFacade ==
  [][\A i \in Procs :
       (~attached[i] /\ Evaluated(i)) => verdict'[i].outcome = UsageError]_vars

C20_Witness ==
  \E i \in Procs :
    /\ ~attached[i] /\ pc[i] = "threw"
    /\ verdict[i] = Verdict("noState", <<>>, UsageError)

\* the method names of the data surface that are reserved
FixedMethods == {"set", "get", "setAll", "getAll", "update", "delete", "clear"}

\* C21: assigning a reserved method name by direct field access
\* (data[name] = v) raises no error and leaves the fields as they were, and
\* the method is still there afterwards; data.set(name, v) with a reserved
\* name stores the field, so that data.get(name) returns v.
C21_ReservedAssignRejected ==
  [][\A i \in Procs, n \in FixedMethods :
       /\ (FacadeOp(i, "data[]=") /\ attempt'[i].name = n)
            => /\ attempt'[i].error = NoError
               /\ Fields(i)' = Fields(i)
               /\ ProxyGet(i, n)' = JsFunction
       /\ (FacadeOp(i, "data.set") /\ attempt'[i].name = n)
            => DataGet(i, n)' = attempt'[i].value]_vars

\* C22: enumerating the data surface reflects the fields only: at every
\* moment of a handler, key listing and iteration yield exactly the names
\* of the current fields, and `name in data` is true exactly for the names
\* of current fields, so false for a method name that is no stored field.
C22_EnumerationOnlyFields ==
  \A i \in Procs :
    attached[i]
      => /\ DataKeys(i) = DOMAIN Fields(i)
         /\ \A n \in FieldNames \cup FixedMethods :
              ProxyHas(i, n) <=> n \in DOMAIN Fields(i)

\* the handler of invocation i holds the mapping the facade holds
HoldsLive(i) == held[i] # NoRef /\ held[i] = sess[i].data

\* C23 as claimed: once a handler holds the mapping getAll() returned, the
\* held mapping has the fields of the facade after every later data
\* operation (update, setAll and clear included), and it is the mapping
\* the flush persists.
C23_GetAllLive ==
  \A i \in Procs :
    (attached[i] /\ held[i] # NoRef)
      => /\ heap[held[i]] = Fields(i)
         /\ (Returned(i) /\ sess[i].state # Null)
              => StoredFields(userId[i]) = heap[held[i]]

\* C23, amended: getAll() returns the mapping the facade holds, not a copy,
\* and changes no field; set, delete and direct assignment keep the facade
\* on the held mapping, so that it shows their effect; and the flush
\* persists the mapping the facade holds when the handler returned, the
\* held one when no update, setAll, clear or fsm.clear replaced it.
C23_GetAllLiveUntilReplaced ==
  /\ [](\A i \in Procs :
          (Returned(i) /\ sess[i].state # Null)
            => /\ StoredFields(userId[i]) = Fields(i)
               /\ HoldsLive(i) => StoredFields(userId[i]) = heap[held[i]])
  /\ [][\A i \in Procs :
         /\ FacadeOp(i, "data.getAll")
              => HoldsLive(i)' /\ Fields(i)' = Fields(i)
         /\ (HoldsLive(i) /\ (\/ FacadeOp(i, "data.set")
                              \/ FacadeOp(i, "data.delete")
                              \/ FacadeOp(i, "data[]=")))
              => HoldsLive(i)' /\ heap'[held'[i]] = Fields(i)']_vars

C23_Witness ==
  \E i \in Procs :
    /\ Returned(i) /\ sess[i].state # Null
    /\ HoldsLive(i)
    /\ lastOp[i] = "data[]="
    /\ Fields(i) = [n \in {"x", "y"} |-> 1]
    /\ StoredFields(userId[i]) = heap[held[i]]

\* C24: the assignment ctx.state = v acts as state.set(v) when v is a
\* string (the state becomes v and the callback fires when it changed), as
\* state.clear() when v is undefined or null, and raises an error to the
\* caller for a v of any other shape.
C24_StateAssignment ==
  [][\A i \in Procs :
       FacadeOp(i, "ctx.state=")
         => LET v == attempt'[i].value
                old == sess[i].state
            IN  /\ v.kind = "string"
                     => /\ sess'[i].state = v.string
                        /\ log'[i] = Notify(i, old # v.string, old, v.string)
                /\ v.kind \in {"undefined", "null"}
                     => /\ sess'[i].state = Null
                        /\ log'[i] = Notify(i, old # Null, old, Null)
                /\ v.kind \notin {"string", "undefined", "null"}
                     => attempt'[i].error # NoError]_vars

\* new has the names of old and of partial, with the value of partial on
\* the names of partial and the value of old on the others
IsShallowMerge(new, old, partial) ==
  /\ DOMAIN new = (DOMAIN old) \cup (DOMAIN partial)
  /\ \A n \in DOMAIN partial : new[n] = partial[n]
  /\ \A n \in (DOMAIN old) \ (DOMAIN partial) : new[n] = old[n]

\* C25: update is a shallow merge in which the partial wins. data.update(p)
\* leaves the facade with the merge of its fields and p and with its state;
\* updateData(key, p) of either backend reads what is stored for the key
\* (the empty mapping when nothing is) and leaves the merge of that and p
\* stored, and neither step changes the stored state.
C25_UpdateShallowMerge ==
  [][/\ \A i \in Procs :
          (FacadeOp(i, "data.update") /\ call' = call)
            => /\ IsShallowMerge(Fields(i)', Fields(i), attempt'[i].partial)
               /\ sess'[i].state = sess[i].state
               /\ \A u \in UserIds : StoredState(u)' = StoredState(u)
     /\ \A c \in Callers, u \in UserIds :
          (call'[c].op = "updateData" /\ call'[c].key = Num(u, FALSE))
            => /\ (call[c].pc = "idle" /\ call'[c].pc # "failed")
                    => /\ call'[c].current = StoredFields(u)
                       /\ StoredState(u)' = StoredState(u)
               /\ (call[c].pc # "done" /\ call'[c].pc = "done")
                    => /\ IsShallowMerge(StoredFields(u)', call'[c].current,
                                         call'[c].partial)
                       /\ StoredState(u)' = StoredState(u)]_vars

C25_Witness ==
  /\ \E c \in Callers :
       /\ call[c].op = "updateData" /\ call[c].pc = "done"
       /\ call[c].current = [n \in {"x"} |-> 1]
       /\ call[c].partial = [n \in {"x", "y"} |-> 2]
       /\ StoredFields(call[c].key.whole) = [n \in {"x", "y"} |-> 2]
       /\ StoredState(call[c].key.whole) = "a"
  /\ \E i \in Procs :
       /\ lastOp[i] = "data.update"
       /\ attempt[i].partial = [n \in {"x"} |-> 1]
       /\ Fields(i) = [n \in {"x"} |-> 1] @@ [n \in {"y"} |-> 2]
       /\ sess[i].state = "a"

\* getData(u) of the configured backend returns absent
GetDataAbsent(u) == Storage_getData(World, u).ref = NoRef

\* C26: clear(key) of either backend succeeds and leaves neither state nor
\* data for the key, so that getState and getData return absent; when
\* nothing was stored for the key it leaves the store as it was.
C26_ClearRemovesBoth ==
  [][\A c \in Callers, u \in UserIds :
       (/\ call[c].pc = "idle"
        /\ call'[c].op = "clear"
        /\ call'[c].key = Num(u, FALSE))
         => /\ call'[c].pc = "done"
            /\ StoredState(u)' = Null
            /\ GetDataAbsent(u)'
            /\ NoEntry(u)'
            /\ NoEntry(u) => (memStore' = memStore /\ redis' = redis)]_vars

C26_Witness ==
  \E c \in Callers, u \in UserIds :
    /\ call[c].op = "clear" /\ call[c].pc = "done"
    /\ call[c].key = Num(u, FALSE)
    /\ lastFinal[u] = [state |-> "a", data |-> [n \in {"x"} |-> 1]]
    /\ \A i \in Procs : pc[i] = "idle"
    /\ StoredState(u) = Null
    /\ GetDataAbsent(u)

\* C27: a user key with nothing stored, because nothing was ever written
\* for it or because its record was cleared, reads as absent: getState and
\* getData of the backend return null, and an invocation that reads both
\* while nothing is stored hands its handler a facade with no state and
\* with no fields.
C27_UnseenKeyIsEmpty ==
  /\ [](\A u \in UserIds :
          NoEntry(u) => (StoredState(u) = Null /\ GetDataAbsent(u)))
  /\ [][/\ \A c \in Callers, u \in UserIds :
            (/\ call[c].pc = "idle" /\ call'[c].pc = "done"
             /\ call'[c].key = Num(u, FALSE)
             /\ NoEntry(u))
              => /\ call'[c].op = "getState"
                      => call'[c].result = Result("state", Null, JsNull)
                 /\ call'[c].op = "getData"
                      => call'[c].result = Result("value", Null, JsNull)
       /\ \A i \in Procs, u \in UserIds :
            (userId'[i] = u /\ NoEntry(u))
              => /\ (pc[i] = "idle" /\ pc'[i] = "awaitGetState")
                      => prior'[i] = Null
                 /\ (/\ pc[i] = "awaitGetState" /\ pc'[i] = "handler"
                     /\ prior[i] = Null)
                      => /\ attached'[i]
                         /\ sess'[i].state = Null
                         /\ Fields(i)' = EmptyMap]_vars

C27_Witness ==
  \E i \in Procs :
    /\ pc[i] = "handler" /\ lastOp[i] = "none" /\ attached[i]
    /\ NoEntry(userId[i])
    /\ lastFinal[userId[i]] = [state |-> "a", data |-> [n \in {"x"} |-> 1]]
    /\ sess[i].state = Null
    /\ Fields(i) = EmptyMap

\* C28: state.clear() leaves the fields of the facade as they are;
\* data.clear() and the assignments ctx.data = undefined and ctx.data = null
\* empty the fields, leave the state of the facade as it is and call no
\* transition callback.
C28_ClearOneSideOnly ==
  [][\A i \in Procs :
       /\ FacadeOp(i, "state.clear")
            => /\ Fields(i)' = Fields(i)
               /\ sess'[i].state = Null
       /\ (\/ FacadeOp(i, "data.clear")
           \/ /\ FacadeOp(i, "ctx.data=")
              /\ attempt'[i].value.kind \in {"undefined", "null"})
            => /\ Fields(i)' = EmptyMap
               /\ sess'[i].state = sess[i].state
               /\ log'[i] = log[i]]_vars

C28_Witness ==
  \E i \in Procs :
    /\ pc[i] = "handler"
    /\ lastOp[i] = "ctx.data="
    /\ attempt[i].value = JsNullLiteral
    /\ sess[i].state = "a"
    /\ Fields(i) = EmptyMap
    /\ Len(Callbacks(log[i])) = 1

\* C29: direct field access works for every name that is none of the fixed
\* method names, "toString" (a name every object inherits) included: the
\* assignment data[name] = v raises no error and stores v under name, and
\* then the direct read data[name] and data.get(name) both return v.
C29_DirectAccessAnyOtherName ==
  [][\A i \in Procs, n \in FieldNames \ FixedMethods :
       (FacadeOp(i, "data[]=") /\ attempt'[i].name = n)
         => /\ attempt'[i].error = NoError
            /\ n \in DOMAIN Fields(i)'
            /\ ProxyGet(i, n)' = attempt'[i].value
            /\ DataGet(i, n)' = attempt'[i].value]_vars

\* C30: fields written while no flow is active are discarded. When an
\* invocation that loaded no state returns with no state, nothing is stored
\* for its user whatever fields its handler wrote, and the invocation that
\* follows one that ended with no state starts with no fields.
C30_FieldsWithoutStateDiscarded ==
  /\ [](\A i \in Procs :
          (Returned(i) /\ prior[i] = Null /\ sess[i].state = Null)
            => /\ NoEntry(userId[i])
               /\ StoredFields(userId[i]) = EmptyMap)
  /\ [][\A i \in Procs :
         (/\ pc[i] = "awaitGetState" /\ pc'[i] = "handler"
          /\ lastFinal[userId[i]].state = Null)
           => /\ sess'[i].state = Null
              /\ Fields(i)' = EmptyMap]_vars

C30_Witness ==
  \E i \in Procs :
    /\ Returned(i)
    /\ prior[i] = Null /\ sess[i].state = Null
    /\ Fields(i) = [n \in {"x"} |-> 1]
    /\ lastFinal[userId[i]].data = [n \in {"x"} |-> 1]
    /\ NoEntry(userId[i])

C32_FlushIsTwoWrites ==
  [][\A i \in Procs :
       /\ (pc[i] = "handler" /\ pc'[i] = "awaitSetState")
            => /\ StoredState(userId[i])' = sess[i].state
               /\ StoredFields(userId[i])' = StoredFields(userId[i])
       /\ (pc[i] = "awaitSetState" /\ pc'[i] = "done")
            => /\ StoredFields(userId[i])' = Fields(i)
               /\ StoredState(userId[i])' = StoredState(userId[i])]_vars

\* both invocations started on nothing and returned, one with state "a"
\* and the field x, the other with state "b" and no field; stored are the
\* state of the second and the fields of the first
C32_Witness ==
  \E i, j \in Procs :
    /\ userId[i] = userId[j]
    /\ Returned(i) /\ Returned(j)
    /\ prior[i] = Null /\ prior[j] = Null
    /\ sess[i].state = "a" /\ Fields(i) = [n \in {"x"} |-> 1]
    /\ sess[j].state = "b" /\ Fields(j) = EmptyMap
    /\ StoredState(userId[i]) = "b"
    /\ StoredFields(userId[i]) = [n \in {"x"} |-> 1]

\* fields are stored for user u and no state is
Orphan(u) == StoredFields(u) # EmptyMap /\ StoredState(u) = Null

C34_CallbackChain ==
  \A i \in Procs :
    (onStateChange /\ attached[i])
      => LET cbs == Callbacks(log[i])
         IN  /\ cbs = <<>> => sess[i].state = prior[i]
             /\ cbs # <<>>
                  => /\ cbs[1].old = prior[i]
                     /\ cbs[Len(cbs)].new = sess[i].state
             /\ \A k \in 1..Len(cbs) :
                  /\ cbs[k].old # cbs[k].new
                  /\ cbs[k].user = userId[i]
                  /\ k > 1 => cbs[k].old = cbs[k - 1].new

C34_Witness ==
  \E i \in Procs :
    /\ onStateChange /\ Returned(i)
    /\ prior[i] = "a" /\ sess[i].state = "b"
    /\ Callbacks(log[i])
         = <<CbEv(userId[i], "a", Null), CbEv(userId[i], Null, "b")>>

\* C35: behind the installed middleware no evaluation of a filter raises
\* the usage error, whatever the update the middleware passed on, updates
\* without a user included.
C35_FiltersNeverRaise ==
  [][\A i \in Procs :
       (constructed = "ready" /\ Evaluated(i))
         => verdict'[i].outcome # UsageError]_vars

\* a second passed on the server and no invocation moved
Ticked == pc' = pc /\ written' # written

Loads(i) == pc[i] = "awaitGetState" /\ pc'[i] = "handler"

\* C37: with a ttl on the Redis backend the state and the fields of a
\* session expire together as the middleware sees them: no load gives no
\* state with fields, and a load that gives a state gives the fields the
\* last flush wrote with it.
C37_ExpireTogether ==
  [][\A i \in Procs :
       (ttl # 0 /\ Loads(i))
         => /\ ~(prior[i] = Null /\ heap'[sess'[i].data] # EmptyMap)
            /\ prior[i] # Null
                 => heap'[sess'[i].data] = lastFinal[userId[i]].data]_vars

\* C37, amended: the two keys expire each on its own, the data key of a
\* flush never before its state key. A load that gives a state gives the
\* fields the last flush wrote with it unless the state key has expired
\* by the time the data key is read; a load that gives no state can give
\* fields, and these are then fields a flush wrote after its state key,
\* seconds later, so that the state key has expired and the data key has
\* not.
C37_DataKeyOutlivesStateKey ==
  /\ [](\A u \in UserIds :
          (ttl # 0 /\ getStateKey(u) \in DOMAIN redis
             /\ \A i \in Procs : pc[i] # "awaitSetState")
            => /\ getDataKey(u) \in DOMAIN redis
               /\ redis[getDataKey(u)].exp >= redis[getStateKey(u)].exp)
  /\ [][\A i \in Procs :
         (ttl # 0 /\ Loads(i))
           => /\ (prior[i] # Null /\ getStateKey(userId[i]) \in DOMAIN redis)
                   => heap'[sess'[i].data] = lastFinal[userId[i]].data
              /\ (prior[i] = Null /\ heap'[sess'[i].data] # EmptyMap)
                   => /\ getStateKey(userId[i]) \in DOMAIN written
                      /\ getDataKey(userId[i]) \in DOMAIN written
                      /\ written[getStateKey(userId[i])]
                           > written[getDataKey(userId[i])]]_vars

\* a load gave no state and the fields of the last flush: the second that
\* passed between the two writes of that flush took the state key first
C37_Witness ==
  \E i \in Procs :
    /\ ttl # 0 /\ pc[i] = "handler" /\ lastOp[i] = "none"
    /\ prior[i] = Null
    /\ heap[sess[i].data] # EmptyMap
    /\ heap[sess[i].data] = lastFinal[userId[i]].data
    /\ getStateKey(userId[i]) \notin DOMAIN redis
    /\ getDataKey(userId[i]) \in DOMAIN redis

\* caller c has a completed updateData for user u
Updated(c, u) ==
  /\ call[c].pc = "done" /\ call[c].op = "updateData"
  /\ call[c].key = Num(u, FALSE)

\* C38: MemoryStorage.updateData reads and writes in one step with respect
\* to every other call: the mapping it stores is the mapping stored at
\* that moment merged with its partial, so that once the updateData calls
\* of two callers for one key have completed, the stored mapping has the
\* keys of both partials.
C38_MemoryUpdateIsAtomic ==
  /\ [](\A u \in UserIds :
          (\A c \in Callers : Updated(c, u))
            => \A c \in Callers :
                 DOMAIN call[c].partial \subseteq DOMAIN StoredFields(u))
  /\ [][\A c \in Callers, u \in UserIds :
         (storageKind = "memory" /\ ~Updated(c, u) /\ Updated(c, u)')
           => StoredFields(u)'
                = Merge(StoredFields(u), call'[c].partial)]_vars

\* both callers updated one key with partials that share no key, and the
\* stored mapping is the two together
C38_Witness ==
  \E u \in UserIds :
    /\ storageKind = "memory"
    /\ \A c \in Callers : Updated(c, u)
    /\ \E c, d \in Callers :
         /\ call[c].partial = [n \in {"x"} |-> 1]
         /\ call[d].partial = [n \in {"y"} |-> 2]
         /\ call[d].current = [n \in {"x"} |-> 1]
    /\ StoredFields(u) = [n \in {"x", "y"} |-> IF n = "x" THEN 1 ELSE 2]

====
